---- MODULE Spec2Model ----
(***************************************************************************)
(* Sleep-staging engine of polar-sensor-app (backend/cole_kripke_direct.py *)
(* and backend/main.py).                                                   *)
(*                                                                         *)
(* Two classifier paths are modelled:                                      *)
(*   - the Cole-Kripke path: apply_cole_kripke, extract_sleep_metrics and  *)
(*     their caller analyze_sleep_with_hypnospy;                           *)
(*   - the threshold path: analyze_sleep_with_simple_algorithm.            *)
(*                                                                         *)
(* Number representation.  The code computes in floating point; the model  *)
(* computes the same quantities exactly, in scaled integers:               *)
(*   - the sleep index is kept in units of 1/SIScale (SI = 1 <=> SIScale); *)
(*   - timestamps are whole minutes (every epoch is a calendar minute);    *)
(*   - rounded percentages and indices are kept in hundredths.             *)
(***************************************************************************)
EXTENDS Integers, Sequences, FiniteSets

VARIABLES
    pc,            \* position of the call in progress
    hyp_act_x,     \* Cole-Kripke path: per-minute activity counts (column hyp_act_x)
    results_df,    \* Cole-Kripke path: columns added by apply_cole_kripke
    df,            \* threshold path: the merged frame handed to the classifier
    likely_sleep,  \* threshold path: column likely_sleep of the sorted frame
    sleep_blocks,  \* threshold path: the (start, end) pairs of the block scan
    summary,       \* the SleepSummary returned (meaningful when pc is a "done" position)
    error,         \* the error raised ("none" when no error was raised)
    prev,          \* threshold path: outcome of the previous call on the same
                   \* activity with other heart rates (<<>> when there was none)
    ppg_windows,   \* epoching: the PPG samples of each calendar minute and the
                   \* peaks find_peaks reports in them
    acc_samples,   \* epoching: the accelerometer samples (timestamp, magnitude)
    hr_data,       \* epoching: frame returned by calculate_heart_rate_from_ppg
    activity_data, \* epoching: frame returned by calculate_activity_metrics
    merged_data,   \* epoching: the merged frame of analyze_sleep
    hypnospy_df,   \* epoching: frame returned by prepare_data_for_hypnospy
    havok_df,      \* HAVOK: shape of the frame handed to apply_havok_analysis
    forcing_signal,\* HAVOK: the last retained column of V (from the SVD)
    havok_results, \* HAVOK: the dict returned by apply_havok_analysis
    request,       \* endpoint: the request in progress
    row,           \* endpoint: the stored analysis row of the session
    db_writes      \* endpoint: the payloads the request has sent to the table

pre_vars == <<ppg_windows, acc_samples, hr_data, activity_data, merged_data, hypnospy_df>>
havok_vars == <<havok_df, forcing_signal, havok_results>>
req_vars == <<request, row, db_writes>>

vars == <<pc, hyp_act_x, results_df, df, likely_sleep, sleep_blocks, summary, error, prev,
          pre_vars, havok_vars, req_vars>>

ck_vars == <<hyp_act_x, results_df>>
th_vars == <<df, likely_sleep, sleep_blocks, prev>>

(***************************************************************************)
(* Bounds of the model.                                                    *)
(***************************************************************************)
\* An input series is given run-length encoded: at most MaxSegs runs.
MaxSegs == 3
\* An input series has at most MaxLen epochs.
MaxLen == 62
\* A merged frame of the threshold path is made of at most MaxRuns runs of
\* epochs of equal activity.
MaxRuns == 5
\* A merged frame of the threshold path has at most MaxRows rows.
MaxRows == 36

(***************************************************************************)
(* Values standing for pandas' missing value (NaN / None).  Every genuine  *)
(* number of the model is >= 0.                                            *)
(***************************************************************************)
NA == -1

\* the parts of the state a call does not touch, before they are used
IdlePre ==
    /\ ppg_windows = <<>>
    /\ acc_samples = <<>>
    /\ hr_data = <<>>
    /\ activity_data = <<>>
    /\ merged_data = <<>>
    /\ hypnospy_df = <<>>

IdleHavok ==
    /\ havok_df = <<>>
    /\ forcing_signal = <<>>
    /\ havok_results = <<>>

IdleReq ==
    /\ request = <<>>
    /\ row = <<>>
    /\ db_writes = <<>>

(***************************************************************************)
(* Generic helpers.                                                        *)
(***************************************************************************)
Min2(a, b) == IF a <= b THEN a ELSE b

\* the sequence s itself, held as an evaluated tuple (a sequence written as a
\* function is otherwise evaluated again at every use)
AsTuple(s) == s \o <<>>

RECURSIVE SumSeq(_)
SumSeq(s) == IF s = <<>> THEN 0 ELSE Head(s) + SumSeq(Tail(s))

\* n run-length encoded: the sequence of Len(segs) runs, run k being
\* segs[k].run copies of segs[k].val
RECURSIVE Expand(_)
Expand(segs) ==
    IF segs = <<>> THEN <<>>
    ELSE [i \in 1..Head(segs).run |-> Head(segs).val] \o Expand(Tail(segs))

\* Python's round(num/den, digits) with the result in units of 10^-digits:
\* the nearest integer to num*scale/den, ties to even (num >= 0, den > 0).
RoundHalfEven(num, den, scale) ==
    LET q == (num * scale) \div den
        r == (num * scale) % den
    IN  IF 2 * r < den THEN q
        ELSE IF 2 * r > den THEN q + 1
        ELSE IF q % 2 = 0 THEN q ELSE q + 1

(***************************************************************************)
(* cole_kripke_direct.py: apply_cole_kripke                                *)
(***************************************************************************)
\* (df[activity_column] / 100).clip(upper=300): divisor and clip bound
ActivityDivisor == 100
ClipUpper == 300

\* sleep_index *= 0.001, i.e. a division by 1000
SIDivisor == 1000

\* The model keeps scaled_activity in units of 1/ActivityDivisor and the
\* sleep index in units of 1/SIScale, so that SI >= 1 reads si >= SIScale.
SIScale == SIDivisor * ActivityDivisor

\* coefficients with the weight of the current epoch mistyped (203 for 230)
coefficients_mistyped ==
    << [offset |-> -4, coef |-> 106],
       [offset |-> -3, coef |-> 54],
       [offset |-> -2, coef |-> 58],
       [offset |-> -1, coef |-> 76],
       [offset |-> 0,  coef |-> 203],
       [offset |-> 1,  coef |-> 74],
       [offset |-> 2,  coef |-> 67] >>

\* the coefficients dict, in its insertion order
coefficients ==
    << [offset |-> -4, coef |-> 106],
       [offset |-> -3, coef |-> 54],
       [offset |-> -2, coef |-> 58],
       [offset |-> -1, coef |-> 76],
       [offset |-> 0,  coef |-> 230],
       [offset |-> 1,  coef |-> 74],
       [offset |-> 2,  coef |-> 67] >>

\* (count / 100).clip(upper=300), in units of 1/ActivityDivisor
scaled_activity(counts) ==
    AsTuple([i \in 1..Len(counts) |-> Min2(counts[i], ClipUpper * ActivityDivisor)])

\* pandas Series.shift(periods): row i takes the value of row i - periods,
\* NaN where that row does not exist
shift(s, periods) ==
    AsTuple([i \in 1..Len(s) |->
                IF (i - periods) \in 1..Len(s) THEN s[i - periods] ELSE NA])

\* pandas Series.fillna(value)
fillna(s, value) == AsTuple([i \in 1..Len(s) |-> IF s[i] = NA THEN value ELSE s[i]])

\* shifted with the future epochs shifted the wrong way (shift(offset) in the
\* branch offset > 0)
shifted_future_reversed(scaled, offset) ==
    IF offset < 0 THEN fillna(shift(scaled, -offset), 0)
    ELSE IF offset > 0 THEN fillna(shift(scaled, offset), 0)
    ELSE scaled

\* the body of the loop over coefficients.items(): the series added for one
\* offset (both non-zero branches call shift(-offset))
shifted(scaled, offset) ==
    IF offset < 0 THEN fillna(shift(scaled, -offset), 0)
    ELSE IF offset > 0 THEN fillna(shift(scaled, -offset), 0)
    ELSE scaled

\* sleep_index after the loop has run over coefficients[k..]
RECURSIVE accumulate(_, _, _)
accumulate(scaled, acc, k) ==
    IF k > Len(coefficients) THEN acc
    ELSE LET sh == shifted(scaled, coefficients[k].offset)
         IN  accumulate(scaled,
                        AsTuple([i \in 1..Len(scaled) |->
                                    acc[i] + coefficients[k].coef * sh[i]]),
                        k + 1)

\* sleep_index, in units of 1/SIScale
sleep_index(counts) ==
    accumulate(scaled_activity(counts), [i \in 1..Len(counts) |-> 0], 1)

\* the label with the comparison turned round: sleep below 1
sleep_wake_below(si) == AsTuple([i \in 1..Len(si) |-> IF si[i] < SIScale THEN 1 ELSE 0])

\* (sleep_index >= 1).astype(int)
sleep_wake(si) == AsTuple([i \in 1..Len(si) |-> IF si[i] >= SIScale THEN 1 ELSE 0])

\* the DataFrame apply_cole_kripke returns (the columns it adds)
cole_kripke_df(counts) ==
    LET si == sleep_index(counts)
    IN  [sleep_index |-> si, sleep_wake |-> sleep_wake(si), sleep_group |-> <<>>]

(***************************************************************************)
(* cole_kripke_direct.py: extract_sleep_metrics                            *)
(***************************************************************************)
\* the DatetimeIndex of a Cole-Kripke frame: 1-minute epochs, in minutes
\* since the first epoch (prepare_data_for_hypnospy: date_range(freq='60S'))
EpochIndex(i) == i - 1

\* s != s.shift(), as 0/1 (the first row is compared with NaN: True)
NotEqualShift(s) ==
    AsTuple([i \in 1..Len(s) |-> IF i = 1 THEN 1 ELSE IF s[i] # s[i - 1] THEN 1 ELSE 0])

\* pandas Series.cumsum()
RECURSIVE cumsum_from(_, _, _, _)
cumsum_from(s, i, total, out) ==
    IF i > Len(s) THEN out
    ELSE cumsum_from(s, i + 1, total + s[i], Append(out, total + s[i]))

cumsum(s) == cumsum_from(s, 1, 0, <<>>)

\* the grouping by label instead of by run: every sleep row in one group
sleep_group_by_label(sw) == AsTuple([i \in 1..Len(sw) |-> sw[i] + 1])

\* results_df['sleep_group']
sleep_group(sw) == cumsum(NotEqualShift(sw))

\* the grouping without the filter sleep_wake == 1: wake runs are groups too
sleep_groups_unfiltered(sw) ==
    LET grp == sleep_group(sw)
        labels == {grp[i] : i \in 1..Len(sw)}
    IN  [g \in labels |-> Cardinality({i \in 1..Len(sw) : grp[i] = g})]

\* results_df[results_df['sleep_wake'] == 1].groupby('sleep_group').size():
\* group label |-> number of rows, for the groups of sleep-labelled rows
sleep_groups(sw) ==
    LET grp == sleep_group(sw)
        labels == {grp[i] : i \in {j \in 1..Len(sw) : sw[j] = 1}}
    IN  [g \in labels |-> Cardinality({i \in 1..Len(sw) : grp[i] = g})]

\* idxmax replaced by the first label: the first sleep period, not the longest
idxmax_first_label(sizes) ==
    CHOOSE g \in DOMAIN sizes : \A h \in DOMAIN sizes : g <= h

\* pandas Series.idxmax(): the first label (groupby sorts the labels) that
\* holds the maximum
idxmax(sizes) ==
    CHOOSE g \in DOMAIN sizes :
        /\ \A h \in DOMAIN sizes : sizes[h] <= sizes[g]
        /\ \A h \in DOMAIN sizes : sizes[h] = sizes[g] => g <= h

SetMin(S) == CHOOSE x \in S : \A y \in S : x <= y
SetMax(S) == CHOOSE x \in S : \A y \in S : y <= x

\* 'hr_metrics': None
NoHrMetrics == [avg_hr |-> <<NA, NA>>, min_hr |-> NA, max_hr |-> NA]

\* a returned record whose fields are all absent (no summary was returned)
NoSummary ==
    [sleep_onset |-> NA, wake_time |-> NA,
     total_sleep_time_minutes |-> NA, time_in_bed_minutes |-> NA,
     sleep_efficiency_percent |-> NA, sleep_onset_latency_minutes |-> NA,
     wake_after_sleep_onset_minutes |-> NA, number_of_awakenings |-> NA,
     awakening_index |-> NA, algorithm_used |-> "none",
     hr_metrics |-> NoHrMetrics]

\* the error messages raised on the Cole-Kripke path
NoSleepDetected == "No sleep periods detected by Cole-Kripke algorithm"
InsufficientDataCK == "Insufficient data: need >=60min"

\* the dict extract_sleep_metrics returns, for a frame with at least one
\* sleep group.  sleep_efficiency_percent and awakening_index are in
\* hundredths (round(x, 1) gives tenths).
sleep_metrics(sw) ==
    LET n == Len(sw)
        grp == sleep_group(sw)
        main_sleep_group == idxmax(sleep_groups(sw))
        main_sleep == {i \in 1..n : grp[i] = main_sleep_group}
        sleep_onset == SetMin({EpochIndex(i) : i \in main_sleep})
        wake_time == SetMax({EpochIndex(i) : i \in main_sleep})
        total_sleep_minutes == Cardinality(main_sleep)
        total_duration_minutes == wake_time - sleep_onset
        sleep_efficiency ==
            IF total_duration_minutes > 0
            THEN 10 * RoundHalfEven(total_sleep_minutes * 100, total_duration_minutes, 10)
            ELSE 0
        InBedAwake(i) == /\ EpochIndex(i) >= sleep_onset
                         /\ EpochIndex(i) <= wake_time
                         /\ sw[i] = 0
        wake_epochs_in_bed == SelectSeq(AsTuple([i \in 1..n |-> i]), InBedAwake)
        wake_sw == AsTuple([k \in 1..Len(wake_epochs_in_bed) |-> sw[wake_epochs_in_bed[k]]])
        wake_episode == cumsum(NotEqualShift(wake_sw))
        num_awakenings ==
            IF Len(wake_epochs_in_bed) > 0
            THEN Cardinality({wake_episode[k] : k \in 1..Len(wake_episode)})
            ELSE 0
        waso == Len(wake_epochs_in_bed)
    IN  [sleep_onset |-> sleep_onset,
         wake_time |-> wake_time,
         total_sleep_time_minutes |-> total_sleep_minutes,
         time_in_bed_minutes |-> total_duration_minutes,
         sleep_efficiency_percent |-> sleep_efficiency,
         sleep_onset_latency_minutes |-> 0,
         wake_after_sleep_onset_minutes |-> waso,
         number_of_awakenings |-> num_awakenings,
         awakening_index |->
            IF total_sleep_minutes > 0
            THEN RoundHalfEven(num_awakenings * 60, total_sleep_minutes, 100)
            ELSE 0,
         algorithm_used |-> "cole-kripke-direct",
         hr_metrics |-> NoHrMetrics]

(***************************************************************************)
(* Inputs of the Cole-Kripke path.                                         *)
(***************************************************************************)
\* main.py, analyze_sleep_with_hypnospy: if len(hypnospy_df) < 60
MinEpochsCK == 60

\* Activity counts of an epoch: nothing; just below and just at the count
\* from which a constant series is scored asleep; a count whose two-epoch
\* echo scores exactly SI = 1 four epochs later; a count above the clip.
Counts == {0, 150, 151, 625, 40000}

\* a run is one epoch, or as many epochs as the floor of the analysis asks for
RunLengths == {1, MinEpochsCK}

SegSeqs(vals) ==
    UNION {[1..k -> [val : vals, run : RunLengths]] : k \in 1..MaxSegs}

RECURSIVE TotalRun(_)
TotalRun(segs) == IF segs = <<>> THEN 0 ELSE Head(segs).run + TotalRun(Tail(segs))

\* the frames prepare_data_for_hypnospy can return: one row per minute,
\* never empty
ActivitySeries ==
    {Expand(segs) : segs \in {sg \in SegSeqs(Counts) : TotalRun(sg) <= MaxLen}}

(***************************************************************************)
(* Actions of the Cole-Kripke path.                                        *)
(***************************************************************************)
InitCK ==
    /\ pc = "ck_ready"
    /\ hyp_act_x \in ActivitySeries
    /\ results_df = cole_kripke_df(<<>>)
    /\ summary = NoSummary
    /\ error = "none"
    /\ df = <<>>
    /\ likely_sleep = <<>>
    /\ sleep_blocks = <<>>
    /\ prev = <<>>
    /\ IdlePre /\ IdleHavok /\ IdleReq

\* a direct call of apply_cole_kripke(df)
apply_cole_kripke ==
    /\ pc = "ck_ready"
    /\ results_df' = cole_kripke_df(hyp_act_x)
    /\ pc' = "ck_classified"
    /\ UNCHANGED <<hyp_act_x, summary, error, th_vars, pre_vars, havok_vars, req_vars>>

\* the effect of extract_sleep_metrics(frame) on a frame that carries the
\* columns of apply_cole_kripke: it adds the column sleep_group, then raises
\* or returns the summary
ExtractOutcome(frame, done, failed) ==
    \E sw \in {frame.sleep_wake} :
        /\ results_df' = [frame EXCEPT !.sleep_group = sleep_group(sw)]
        /\ IF DOMAIN sleep_groups(sw) = {}
           THEN /\ error' = NoSleepDetected
                /\ summary' = summary
                /\ pc' = failed
           ELSE /\ summary' = sleep_metrics(sw)
                /\ error' = error
                /\ pc' = done

\* a direct call of extract_sleep_metrics(results_df)
extract_sleep_metrics ==
    /\ pc = "ck_classified"
    /\ ExtractOutcome(results_df, "ck_done", "ck_error")
    /\ UNCHANGED <<hyp_act_x, th_vars, pre_vars, havok_vars, req_vars>>

\* analyze_sleep_with_hypnospy, from the frame prepare_data_for_hypnospy
\* returned: the floor on the number of epochs, then the two calls above
analyze_sleep_with_hypnospy ==
    /\ pc = "ck_ready"
    /\ IF Len(hyp_act_x) < MinEpochsCK
       THEN /\ error' = InsufficientDataCK
            /\ pc' = "hyp_error"
            /\ UNCHANGED <<results_df, summary>>
       ELSE \E classified \in {cole_kripke_df(hyp_act_x)} :
                ExtractOutcome(classified, "hyp_done", "hyp_error")
    /\ UNCHANGED <<hyp_act_x, th_vars, pre_vars, havok_vars, req_vars>>

NextCK ==
    \/ apply_cole_kripke
    \/ extract_sleep_metrics
    \/ analyze_sleep_with_hypnospy

SpecCK == InitCK /\ [][NextCK]_vars

(***************************************************************************)
(* main.py: analyze_sleep_with_simple_algorithm (the threshold path)       *)
(*                                                                         *)
(* A frame is a sequence of rows [timestamp, activity_magnitude,           *)
(* heart_rate]; heart_rate is NA where the merge left it missing.  Row     *)
(* idx of the code (0-based, after reset_index) is element idx + 1.        *)
(***************************************************************************)
\* if len(df) < 10
MinRecords == 10
\* max_awake_tolerance = 3
max_awake_tolerance == 3
\* if idx - sleep_start >= 10 / len(df) - sleep_start >= 10
MinBlockSpan == 10
\* quantile(0.40) and quantile(0.60), as QuantileActivity/QuantileDen and
\* QuantileHr/QuantileDen
QuantileActivity == 2
QuantileHr == 3
QuantileDen == 5

InsufficientDataTh == "Insufficient processed data for sleep analysis"

\* df.sort_values('timestamp').reset_index(drop=True): a stable sort
sort_values(rows) ==
    LET n == Len(rows)
        Rank(i) == Cardinality({j \in 1..n :
                       \/ rows[j].timestamp < rows[i].timestamp
                       \/ (rows[j].timestamp = rows[i].timestamp /\ j < i)}) + 1
        ranks == AsTuple([i \in 1..n |-> Rank(i)])
    IN  AsTuple([k \in 1..n |-> rows[CHOOSE i \in 1..n : ranks[i] = k]])

\* the values of a column in increasing order
SortedValues(vals) ==
    LET n == Len(vals)
        Rank(i) == Cardinality({j \in 1..n :
                       \/ vals[j] < vals[i]
                       \/ (vals[j] = vals[i] /\ j < i)}) + 1
        ranks == AsTuple([i \in 1..n |-> Rank(i)])
    IN  AsTuple([k \in 1..n |-> vals[CHOOSE i \in 1..n : ranks[i] = k]])

\* pandas Series.quantile(qnum/QuantileDen) of a non-empty column without
\* missing values, linear interpolation; the result is QuantileDen times the
\* quantile, so that it stays an integer
quantile(vals, qnum) ==
    LET n == Len(vals)
        sorted == SortedValues(vals)
        pos == qnum * (n - 1)
        lo == pos \div QuantileDen
        frac == pos % QuantileDen
        hi == IF lo + 1 <= n - 1 THEN lo + 1 ELSE lo
    IN  QuantileDen * sorted[lo + 1] + frac * (sorted[hi + 1] - sorted[lo + 1])

\* the non-missing values of a column
notna(vals) == SelectSeq(vals, LAMBDA v : v # NA)

Column(rows, name) == AsTuple([i \in 1..Len(rows) |-> rows[i][name]])

\* activity_threshold (times QuantileDen)
activity_threshold(rows) == quantile(Column(rows, "activity_magnitude"), QuantileActivity)

\* hr_threshold (times QuantileDen), NA when no heart rate is present
hr_threshold(rows) ==
    IF notna(Column(rows, "heart_rate")) # <<>>
    THEN quantile(notna(Column(rows, "heart_rate")), QuantileHr)
    ELSE NA

\* the labelling with the heart-rate branch applied: a row with a heart rate
\* is likely_sleep only if that is below hr_threshold as well
likely_sleep_column_with_hr(rows) ==
    LET threshold == activity_threshold(rows)
        hr_limit == hr_threshold(rows)
    IN  AsTuple([i \in 1..Len(rows) |->
                    /\ QuantileDen * rows[i].activity_magnitude < threshold
                    /\ (rows[i].heart_rate # NA =>
                            QuantileDen * rows[i].heart_rate < hr_limit)])

\* the labelling with <= for <: a row at the threshold is likely_sleep too
likely_sleep_column_at_most(rows) ==
    LET threshold == activity_threshold(rows)
    IN  AsTuple([i \in 1..Len(rows) |->
                    QuantileDen * rows[i].activity_magnitude <= threshold])

\* df['likely_sleep'] = df['activity_magnitude'] < activity_threshold; the
\* branch on hr_threshold is `pass`
likely_sleep_column(rows) ==
    LET threshold == activity_threshold(rows)
    IN  AsTuple([i \in 1..Len(rows) |->
                    QuantileDen * rows[i].activity_magnitude < threshold])

\* the block scan with awake_count never reset by a sleep row: the wake rows
\* of a block are counted in total, not consecutively
RECURSIVE scan_blocks_no_reset(_, _, _)
scan_blocks_no_reset(ls, idx, st) ==
    IF idx > Len(ls) - 1 THEN st
    ELSE IF ls[idx + 1]
    THEN scan_blocks_no_reset(ls, idx + 1,
            [st EXCEPT !.sleep_start = IF st.in_sleep_period THEN @ ELSE idx,
                       !.in_sleep_period = TRUE])
    ELSE IF ~st.in_sleep_period THEN scan_blocks_no_reset(ls, idx + 1, st)
    ELSE IF st.awake_count + 1 > max_awake_tolerance
    THEN scan_blocks_no_reset(ls, idx + 1,
            [st EXCEPT !.sleep_blocks =
                           IF idx - st.sleep_start >= MinBlockSpan
                           THEN Append(@, <<st.sleep_start, idx - (st.awake_count + 1) - 1>>)
                           ELSE @,
                       !.in_sleep_period = FALSE,
                       !.awake_count = 0])
    ELSE scan_blocks_no_reset(ls, idx + 1, [st EXCEPT !.awake_count = @ + 1])

\* the block scan: the loop `for idx, row in df.iterrows()` from row idx on,
\* st holding in_sleep_period, sleep_start, awake_count and sleep_blocks
RECURSIVE scan_blocks(_, _, _)
scan_blocks(ls, idx, st) ==
    IF idx > Len(ls) - 1 THEN st
    ELSE IF ls[idx + 1]
    THEN scan_blocks(ls, idx + 1,
            [st EXCEPT !.sleep_start = IF st.in_sleep_period THEN @ ELSE idx,
                       !.in_sleep_period = TRUE,
                       !.awake_count = 0])
    ELSE IF ~st.in_sleep_period THEN scan_blocks(ls, idx + 1, st)
    ELSE IF st.awake_count + 1 > max_awake_tolerance
    THEN scan_blocks(ls, idx + 1,
            [st EXCEPT !.sleep_blocks =
                           IF idx - st.sleep_start >= MinBlockSpan
                           THEN Append(@, <<st.sleep_start, idx - (st.awake_count + 1) - 1>>)
                           ELSE @,
                       !.in_sleep_period = FALSE,
                       !.awake_count = 0])
    ELSE scan_blocks(ls, idx + 1, [st EXCEPT !.awake_count = @ + 1])

\* sleep_blocks after the loop and the handling of the final block
detect_sleep_blocks(ls) ==
    LET st == scan_blocks(ls, 0,
                  [in_sleep_period |-> FALSE, sleep_start |-> NA,
                   awake_count |-> 0, sleep_blocks |-> <<>>])
    IN  IF st.in_sleep_period /\ Len(ls) - st.sleep_start >= MinBlockSpan
        THEN Append(st.sleep_blocks, <<st.sleep_start, Len(ls) - 1>>)
        ELSE st.sleep_blocks

\* the count with in_wake_period never reset: every wake row is an awakening
count_awakenings_per_row(ls, i, wake_idx, awakenings, in_wake_period) ==
    awakenings + Cardinality({k \in i..wake_idx : ~ls[k + 1]})

\* the loop counting awakenings over range(sleep_onset_idx, wake_idx + 1)
RECURSIVE count_awakenings(_, _, _, _, _)
count_awakenings(ls, i, wake_idx, awakenings, in_wake_period) ==
    IF i > wake_idx THEN awakenings
    ELSE IF ~ls[i + 1]
    THEN count_awakenings(ls, i + 1, wake_idx,
                          IF in_wake_period THEN awakenings ELSE awakenings + 1, TRUE)
    ELSE count_awakenings(ls, i + 1, wake_idx, awakenings, FALSE)

\* the duration of the longest block alone
total_sleep_minutes_longest_block(ts, blocks) ==
    SetMax({ts[blocks[b][2] + 1] - ts[blocks[b][1] + 1] : b \in 1..Len(blocks)})

\* total_sleep_minutes: the sum over the blocks of the time from the block's
\* first to its last row
total_sleep_minutes_of(ts, blocks) ==
    SumSeq([b \in 1..Len(blocks) |-> ts[blocks[b][2] + 1] - ts[blocks[b][1] + 1]])

\* the wake rows up to wake_idx, without the lower end sleep_onset_idx
wake_periods_up_to_wake_idx(ls, sleep_onset_idx, wake_idx) ==
    SelectSeq(AsTuple([i \in 1..Len(ls) |-> i - 1]),
              LAMBDA i : i <= wake_idx /\ ~ls[i + 1])

\* wake_periods_during_sleep: the rows i of range(len(df)) with
\* sleep_onset_idx <= i <= wake_idx that are not likely_sleep
wake_periods_during_sleep_of(ls, sleep_onset_idx, wake_idx) ==
    SelectSeq(AsTuple([i \in 1..Len(ls) |-> i - 1]),
              LAMBDA i : sleep_onset_idx <= i /\ i <= wake_idx /\ ~ls[i + 1])

\* the floor one record lower
too_few_records_below_nine(n) == n < MinRecords - 1

\* if len(df) < 10: raise
too_few_records(n) == n < MinRecords

\* 'hr_metrics' of the returned dict; avg_hr is kept as <<sum, count>>
hr_metrics_of(rows) ==
    LET hr == notna(Column(rows, "heart_rate"))
    IN  IF hr = <<>> THEN NoHrMetrics
        ELSE [avg_hr |-> <<SumSeq(hr), Len(hr)>>,
              min_hr |-> SetMin({hr[k] : k \in 1..Len(hr)}),
              max_hr |-> SetMax({hr[k] : k \in 1..Len(hr)})]

\* the dict returned for the sorted frame rows, its labels ls and its blocks
simple_metrics(rows, ls, blocks) ==
    LET n == Len(rows)
        ts == Column(rows, "timestamp")
        ts_min == SetMin({ts[i] : i \in 1..n})
        ts_max == SetMax({ts[i] : i \in 1..n})
        time_in_bed == ts_max - ts_min
    IN  IF blocks = <<>>
        THEN [sleep_onset |-> NA, wake_time |-> NA,
              total_sleep_time_minutes |-> 0,
              time_in_bed_minutes |-> time_in_bed,
              sleep_efficiency_percent |-> 0,
              sleep_onset_latency_minutes |-> NA,
              wake_after_sleep_onset_minutes |-> NA,
              number_of_awakenings |-> 0,
              awakening_index |-> 0,
              algorithm_used |-> "absent",
              hr_metrics |-> NoHrMetrics]
        ELSE
        LET sleep_onset_idx == blocks[1][1]
            wake_idx == blocks[Len(blocks)][2]
            sleep_onset == ts[sleep_onset_idx + 1]
            wake_time == ts[wake_idx + 1]
            total_sleep_minutes == total_sleep_minutes_of(ts, blocks)
            wake_periods_during_sleep ==
                wake_periods_during_sleep_of(ls, sleep_onset_idx, wake_idx)
            awakenings == count_awakenings(ls, sleep_onset_idx, wake_idx, 0, FALSE)
        IN  [sleep_onset |-> sleep_onset,
             wake_time |-> wake_time,
             total_sleep_time_minutes |-> total_sleep_minutes,
             time_in_bed_minutes |-> time_in_bed,
             sleep_efficiency_percent |->
                IF time_in_bed > 0
                THEN RoundHalfEven(total_sleep_minutes * 100, time_in_bed, 100)
                ELSE 0,
             sleep_onset_latency_minutes |-> sleep_onset - ts_min,
             wake_after_sleep_onset_minutes |-> Len(wake_periods_during_sleep),
             number_of_awakenings |-> awakenings,
             awakening_index |->
                IF total_sleep_minutes > 0
                THEN RoundHalfEven(awakenings * 60, total_sleep_minutes, 100)
                ELSE 0,
             algorithm_used |-> "absent",
             hr_metrics |-> hr_metrics_of(rows)]

(***************************************************************************)
(* Inputs of the threshold path.                                           *)
(***************************************************************************)
\* The activity of successive runs cycles through a profile: low first,
\* high first, and three levels.
Profiles == {<<0, 5>>, <<5, 0>>, <<0, 5, 2>>}

\* Lengths of a run: up to the awake tolerance, one more than it, and runs
\* that, with the run after them, reach the minimum span of a block.
RunMenu == {max_awake_tolerance, max_awake_tolerance + 1, 7, 11}

RunSeqs ==
    {runs \in UNION {[1..k -> RunMenu] : k \in 1..MaxRuns} : SumSeq(runs) <= MaxRows}

\* minutes without any epoch before the second run (the resampling of
\* calculate_activity_metrics emits no epoch for a minute without samples)
GapChoices == {0, 5}

\* the merged frame of a session without PPG (heart_rate = None in every
\* row): run k has runs[k] epochs of activity profile[k mod Len(profile)]
Frame(profile, runs, gap) ==
    LET segs == [k \in 1..Len(runs) |->
                    [val |-> profile[((k - 1) % Len(profile)) + 1], run |-> runs[k]]]
        act == Expand(segs)
    IN  [i \in 1..Len(act) |->
            [timestamp |-> (i - 1) + (IF i > runs[1] THEN gap ELSE 0),
             activity_magnitude |-> act[i],
             heart_rate |-> NA]]

MergedFrames ==
    {Frame(profile, runs, gap) : profile \in Profiles, runs \in RunSeqs, gap \in GapChoices}

\* the heart-rate column of a session with PPG: a varying rate, missing in
\* the rows for which the merge found no heart-rate epoch within 30 s
HeartRateAt(i) == IF i % 5 = 0 THEN NA ELSE 50 + 10 * (i % 4)

(***************************************************************************)
(* Actions of the threshold path.                                          *)
(***************************************************************************)
InitTh ==
    /\ pc = "th_ready"
    /\ df \in MergedFrames
    /\ likely_sleep = <<>>
    /\ sleep_blocks = <<>>
    /\ summary = NoSummary
    /\ error = "none"
    /\ prev = <<>>
    /\ hyp_act_x = <<>>
    /\ results_df = cole_kripke_df(<<>>)
    /\ IdlePre /\ IdleHavok /\ IdleReq

\* a call of analyze_sleep_with_simple_algorithm(df)
analyze_sleep_with_simple_algorithm ==
    /\ pc = "th_ready"
    /\ IF too_few_records(Len(df))
       THEN /\ error' = InsufficientDataTh
            /\ pc' = "th_error"
            /\ UNCHANGED <<likely_sleep, sleep_blocks, summary>>
       ELSE \E sorted \in {sort_values(df)} :
            \E ls \in {likely_sleep_column(sorted)} :
            \E blocks \in {detect_sleep_blocks(ls)} :
                /\ likely_sleep' = ls
                /\ sleep_blocks' = blocks
                /\ summary' = simple_metrics(sorted, ls, blocks)
                /\ pc' = "th_done"
                /\ error' = error
    /\ UNCHANGED <<df, prev, ck_vars, pre_vars, havok_vars, req_vars>>

\* the caller analyses the same epochs again, now with heart rates (a
\* session whose PPG stream was usable): a fresh call, whose outcome is kept
\* beside that of the call before
analyze_again_with_heart_rate ==
    /\ pc \in {"th_done", "th_error"}
    /\ prev = <<>>
    /\ df' = [i \in 1..Len(df) |-> [df[i] EXCEPT !.heart_rate = HeartRateAt(i)]]
    /\ prev' = <<[pc |-> pc, likely_sleep |-> likely_sleep,
                  sleep_blocks |-> sleep_blocks, summary |-> summary,
                  error |-> error]>>
    /\ pc' = "th_ready"
    /\ likely_sleep' = <<>>
    /\ sleep_blocks' = <<>>
    /\ summary' = NoSummary
    /\ error' = "none"
    /\ UNCHANGED <<ck_vars, pre_vars, havok_vars, req_vars>>

NextTh ==
    \/ analyze_sleep_with_simple_algorithm
    \/ analyze_again_with_heart_rate

SpecTh == InitTh /\ [][NextTh]_vars

(***************************************************************************)
(* The engine: a call on either classifier path.                           *)
(***************************************************************************)
Init == InitCK \/ InitTh

Next ==
    \/ apply_cole_kripke
    \/ extract_sleep_metrics
    \/ analyze_sleep_with_hypnospy
    \/ analyze_sleep_with_simple_algorithm
    \/ analyze_again_with_heart_rate

Spec == Init /\ [][Next]_vars

(***************************************************************************)
(* Properties.  Positions of a finished call.                              *)
(***************************************************************************)
\* apply_cole_kripke has returned its frame
Classified ==
    \/ pc \in {"ck_classified", "ck_done", "ck_error", "hyp_done"}
    \/ (pc = "hyp_error" /\ error = NoSleepDetected)

\* extract_sleep_metrics has returned a summary
ReturnedCK == pc \in {"ck_done", "hyp_done"}

\* extract_sleep_metrics has run (returned or raised)
ExtractedCK ==
    \/ pc \in {"ck_done", "ck_error", "hyp_done"}
    \/ (pc = "hyp_error" /\ error = NoSleepDetected)

\* analyze_sleep_with_simple_algorithm has returned a summary
ReturnedTh == pc = "th_done"

\* the scaled activity A[j] of the claims, in hundredths: min(count/100, 300)
\* inside the series, 0 outside
PaddedActivity(j) ==
    IF j \in 1..Len(hyp_act_x)
    THEN (IF hyp_act_x[j] > 30000 THEN 30000 ELSE hyp_act_x[j])
    ELSE 0

\* 100000 times the sleep index the Cole-Kripke formula gives epoch i
FormulaSI(i) ==
    106 * PaddedActivity(i - 4) + 54 * PaddedActivity(i - 3)
    + 58 * PaddedActivity(i - 2) + 76 * PaddedActivity(i - 1)
    + 230 * PaddedActivity(i)
    + 74 * PaddedActivity(i + 1) + 67 * PaddedActivity(i + 2)

\* C1: for every series and every epoch i, apply_cole_kripke computes
\* sleep_index(i) = 0.001 * (106 A[i-4] + 54 A[i-3] + 58 A[i-2] + 76 A[i-1]
\* + 230 A[i] + 74 A[i+1] + 67 A[i+2]) with A[j] = min(count[j]/100, 300) and
\* A[j] = 0 outside the series, and sleep_wake(i) = 1 iff sleep_index(i) >= 1.
C1_ColeKripkeFormula ==
    Classified =>
        /\ Len(results_df.sleep_index) = Len(hyp_act_x)
        /\ Len(results_df.sleep_wake) = Len(hyp_act_x)
        /\ \A i \in 1..Len(hyp_act_x) :
              /\ results_df.sleep_index[i] = FormulaSI(i)
              /\ results_df.sleep_wake[i] = (IF FormulaSI(i) >= 100000 THEN 1 ELSE 0)

\* C1 witness: a classified series of at least 7 epochs in which one of the
\* first epochs (part of its window is zero-padded) scores SI = 1 exactly
\* and is labelled sleep, while its own activity is 0
C1_Witness ==
    /\ Classified
    /\ Len(hyp_act_x) >= 7
    /\ \E i \in 1..4 :
          /\ results_df.sleep_index[i + 1] = 100000
          /\ results_df.sleep_wake[i + 1] = 1
          /\ hyp_act_x[i + 1] = 0

ConstantSeries == \A i, j \in 1..Len(hyp_act_x) : hyp_act_x[i] = hyp_act_x[j]

\* C2: in a series whose scaled activity is the same constant c in every
\* epoch, every interior epoch (at least 4 epochs after the start, at least 2
\* before the end) has sleep_index = 0.001 * c * 665 and is labelled sleep iff
\* c >= 1/0.665, i.e. iff the raw count is >= 151.
C2_ConstantActivity ==
    (Classified /\ ConstantSeries) =>
        \A i \in 5..(Len(hyp_act_x) - 2) :
            /\ results_df.sleep_index[i] = 665 * PaddedActivity(i)
            /\ (results_df.sleep_wake[i] = 1) <=> (hyp_act_x[i] >= 151)

\* C2 witness: a classified constant series of count 151 with interior
\* epochs, all of them asleep, whose first epoch (zero-padded) is awake
C2_Witness ==
    /\ Classified
    /\ ConstantSeries
    /\ Len(hyp_act_x) >= 7
    /\ hyp_act_x[1] = 151
    /\ \A i \in 5..(Len(hyp_act_x) - 2) : results_df.sleep_wake[i] = 1
    /\ results_df.sleep_wake[1] = 0

\* C9: on the Cole-Kripke path sleep_onset and wake_time are the first and
\* the last epoch of a maximal run of consecutive sleep-labelled epochs, and
\* no run of sleep-labelled epochs is longer than it.
C9_MainSleepIsLongestRun ==
    ReturnedCK =>
        LET sw == results_df.sleep_wake
            n == Len(sw)
            first == summary.sleep_onset + 1
            last == summary.wake_time + 1
        IN  /\ 1 <= first /\ first <= last /\ last <= n
            /\ \A i \in first..last : sw[i] = 1
            /\ (first = 1 \/ sw[first - 1] = 0)
            /\ (last = n \/ sw[last + 1] = 0)
            /\ \A a \in 1..n :
                  ~(\A k \in a..(a + (last - first) + 1) : k <= n /\ sw[k] = 1)

\* C9 witness: a summary whose main sleep period is not the first sleep
\* period of the series (an earlier, shorter run exists)
C9_Witness ==
    /\ pc = "hyp_done"
    /\ \E i \in 1..summary.sleep_onset : results_df.sleep_wake[i] = 1
    /\ summary.wake_time > summary.sleep_onset

(***************************************************************************)
(* Properties of the returned summary.                                     *)
(***************************************************************************)
\* the label series has no sleep-labelled epoch
AllWakeCK ==
    /\ ExtractedCK
    /\ \A i \in 1..Len(results_df.sleep_wake) : results_df.sleep_wake[i] = 0

AllWakeTh ==
    /\ ReturnedTh
    /\ \A i \in 1..Len(likely_sleep) : ~likely_sleep[i]

\* the timestamps of the analysed frame, in the order of analysis
SortedTimestamps == Column(sort_values(df), "timestamp")

\* C3: every summary returned by either classifier path has
\* 0 <= sleep_efficiency_percent <= 100, total_sleep_time_minutes <=
\* time_in_bed_minutes whenever time_in_bed_minutes > 0, and efficiency 0
\* when time_in_bed <= 0.  (Efficiency is held in hundredths of a percent.)
C3_EfficiencyWithinRange ==
    (ReturnedCK \/ ReturnedTh) =>
        /\ 0 <= summary.sleep_efficiency_percent
        /\ summary.sleep_efficiency_percent <= 10000
        /\ (summary.time_in_bed_minutes > 0 =>
                summary.total_sleep_time_minutes <= summary.time_in_bed_minutes)
        /\ (summary.time_in_bed_minutes <= 0 => summary.sleep_efficiency_percent = 0)

C5_InsufficientData ==
    /\ (pc \in {"th_done", "th_error"} /\ Len(df) < 10) =>
          /\ pc = "th_error"
          /\ error = InsufficientDataTh
          /\ summary = NoSummary
          /\ likely_sleep = <<>>
          /\ sleep_blocks = <<>>
    /\ (pc \in {"hyp_done", "hyp_error"} /\ Len(hyp_act_x) < 60) =>
          /\ pc = "hyp_error"
          /\ error = InsufficientDataCK
          /\ summary = NoSummary
          /\ results_df = cole_kripke_df(<<>>)

\* C5 witness: the threshold path has refused a frame of 9 epochs
C5_Witness ==
    /\ pc = "th_error"
    /\ Len(df) = 9
    /\ error = InsufficientDataTh

\* the sum over the blocks of the time from a block's first to its last row
RECURSIVE BlockDurations(_, _)
BlockDurations(ts, blocks) ==
    IF blocks = <<>> THEN 0
    ELSE (ts[Head(blocks)[2] + 1] - ts[Head(blocks)[1] + 1])
         + BlockDurations(ts, Tail(blocks))

\* the number of sleep-labelled epochs: the summed length of all sleep runs
SleepEpochsCK ==
    Cardinality({i \in 1..Len(results_df.sleep_wake) : results_df.sleep_wake[i] = 1})

\* C6 as stated: in every returned summary total_sleep_time_minutes is the
\* sum of the durations of ALL detected sleep blocks, on both paths.
C6_TotalIsSumOfAllBlocks ==
    /\ ReturnedTh =>
          \A ts \in {SortedTimestamps} :
              summary.total_sleep_time_minutes = BlockDurations(ts, sleep_blocks)
    /\ ReturnedCK => summary.total_sleep_time_minutes = SleepEpochsCK

\* C6, amended: on the threshold path total_sleep_time_minutes is the sum
\* over ALL detected sleep blocks of the time from the block's first to its
\* last epoch; on the Cole-Kripke path it is the number of epochs of the main
\* (longest) sleep run only, wake_time - sleep_onset + 1 minutes.
C6_TotalPerPath ==
    /\ ReturnedTh =>
          \A ts \in {SortedTimestamps} :
              summary.total_sleep_time_minutes = BlockDurations(ts, sleep_blocks)
    /\ ReturnedCK =>
          /\ summary.total_sleep_time_minutes = summary.wake_time - summary.sleep_onset + 1
          /\ summary.total_sleep_time_minutes <= SleepEpochsCK

\* C6 witness: a threshold summary over two or more blocks, whose total is
\* more than the time of any single block
C6_Witness ==
    /\ ReturnedTh
    /\ Len(sleep_blocks) >= 2
    /\ \A ts \in {SortedTimestamps} :
       \A b \in 1..Len(sleep_blocks) :
          summary.total_sleep_time_minutes >
              ts[sleep_blocks[b][2] + 1] - ts[sleep_blocks[b][1] + 1]

\* a threshold summary with a sleep period (sleep_onset is not null)
ReturnedThWithSleep == ReturnedTh /\ summary.sleep_onset # NA

\* epoch i of the Cole-Kripke frame is labelled wake and lies between
\* sleep_onset and wake_time inclusive
WakeInBedCK(i) ==
    /\ results_df.sleep_wake[i] = 0
    /\ summary.sleep_onset <= EpochIndex(i)
    /\ EpochIndex(i) <= summary.wake_time

\* row i of the threshold frame lies between sleep_onset and wake_time
\* inclusive, ts being the timestamps in the order of analysis
InBedTh(ts, i) ==
    /\ summary.sleep_onset <= ts[i]
    /\ ts[i] <= summary.wake_time

WakeInBedTh(ts, i) == InBedTh(ts, i) /\ ~likely_sleep[i]

WakeRunsCK ==
    Cardinality({i \in 1..Len(results_df.sleep_wake) :
                    /\ WakeInBedCK(i)
                    /\ (i = 1 \/ ~WakeInBedCK(i - 1))})

WakeRunsTh(ts) ==
    Cardinality({i \in 1..Len(likely_sleep) :
                    /\ WakeInBedTh(ts, i)
                    /\ (i = 1 \/ ~WakeInBedTh(ts, i - 1))})

ActivityOrderStat(k) ==
    CHOOSE v \in {df[j].activity_magnitude : j \in 1..Len(df)} :
        /\ Cardinality({j \in 1..Len(df) : df[j].activity_magnitude < v}) <= k
        /\ k < Cardinality({j \in 1..Len(df) : df[j].activity_magnitude <= v})

\* 5 times the 40th percentile of the activity magnitudes (linear
\* interpolation between the order statistics around position 0.4 (n - 1))
Percentile40Times5 ==
    LET pos == 2 * (Len(df) - 1)
        lo == pos \div 5
        hi == IF lo + 1 <= Len(df) - 1 THEN lo + 1 ELSE lo
    IN  5 * ActivityOrderStat(lo)
        + (pos % 5) * (ActivityOrderStat(hi) - ActivityOrderStat(lo))

\* the summary without its hr_metrics
TimingFields(sm) == [sm EXCEPT !.hr_metrics = NoHrMetrics]

\* C10: the threshold classifier labels an epoch as sleep iff its
\* activity_magnitude is strictly below the 40th percentile of the series'
\* activity, independent of heart rate: the analysis of the same epochs with
\* other heart-rate values gives the same outcome, labels, sleep blocks and
\* summary fields, hr_metrics excepted.
C10_LabelsIgnoreHeartRate ==
    /\ ReturnedTh =>
          /\ Len(likely_sleep) = Len(df)
          /\ \A sorted \in {sort_values(df)} :
             \A percentile \in {Percentile40Times5} :
             \A i \in 1..Len(df) :
                likely_sleep[i] <=> 5 * sorted[i].activity_magnitude < percentile
    /\ (prev # <<>> /\ pc \in {"th_done", "th_error"}) =>
          /\ pc = prev[1].pc
          /\ error = prev[1].error
          /\ likely_sleep = prev[1].likely_sleep
          /\ sleep_blocks = prev[1].sleep_blocks
          /\ TimingFields(summary) = TimingFields(prev[1].summary)

\* C10 witness: the second analysis has returned a summary with sleep blocks
\* and other hr_metrics than the first, and a row labelled sleep carries a
\* heart rate that is not below the 60th percentile of the heart rates
C10_Witness ==
    /\ prev # <<>>
    /\ ReturnedTh
    /\ sleep_blocks # <<>>
    /\ summary.hr_metrics # prev[1].summary.hr_metrics
    /\ \E i \in 1..Len(df) :
          /\ likely_sleep[i]
          /\ df[i].heart_rate # NA
          /\ 5 * df[i].heart_rate >= hr_threshold(sort_values(df))

(***************************************************************************)
(* Properties of the block scan of the threshold path.                     *)
(***************************************************************************)
\* C11: every sleep block reported by the threshold classifier spans at
\* least 10 epochs: end index - start index + 1 >= 10 for every (start, end)
\* pair of sleep_blocks, the final block included.
C11_BlocksSpanTenEpochs ==
    ReturnedTh =>
        \A b \in 1..Len(sleep_blocks) :
            sleep_blocks[b][2] - sleep_blocks[b][1] + 1 >= 10

\* the state of the scan (in_sleep_period, sleep_start, awake_count,
\* sleep_blocks) once the rows 0..k-1 have been read
ScanStateAfter(k) ==
    scan_blocks(SubSeq(likely_sleep, 1, k), 0,
                [in_sleep_period |-> FALSE, sleep_start |-> NA,
                 awake_count |-> 0, sleep_blocks |-> <<>>])

\* row idx is the 4th of four consecutive non-sleep rows that follow a sleep row
FourthWakeInARow(idx) ==
    /\ idx >= 4
    /\ likely_sleep[idx - 3]
    /\ \A j \in (idx - 3)..idx : ~likely_sleep[j + 1]

\* C12: during the block scan an open sleep block is never closed by a run of
\* 1, 2 or 3 consecutive non-sleep epochs followed by a sleep epoch; it is
\* closed exactly when the 4th consecutive non-sleep epoch is read.
C12_ClosedOnFourthWakeEpoch ==
    ReturnedTh =>
        \A idx \in 0..(Len(likely_sleep) - 1) :
            \A before \in {ScanStateAfter(idx)} :
            \A after \in {ScanStateAfter(idx + 1)} :
                /\ (before.in_sleep_period /\ ~after.in_sleep_period)
                      <=> FourthWakeInARow(idx)
                /\ (before.in_sleep_period /\ likely_sleep[idx + 1]) =>
                      (after.in_sleep_period /\ after.awake_count = 0
                       /\ after.sleep_start = before.sleep_start)

\* C12 witness: a reported block holds a run of exactly 3 non-sleep epochs
\* between sleep epochs, and was closed by a later 4th non-sleep epoch
C12_Witness ==
    /\ ReturnedTh
    /\ \E b \in 1..Len(sleep_blocks) :
          /\ sleep_blocks[b][2] + 5 <= Len(likely_sleep) - 1
          /\ FourthWakeInARow(sleep_blocks[b][2] + 5)
          /\ \E i \in (sleep_blocks[b][1] + 1)..(sleep_blocks[b][2] - 3) :
                /\ likely_sleep[i]
                /\ ~likely_sleep[i + 1] /\ ~likely_sleep[i + 2] /\ ~likely_sleep[i + 3]
                /\ likely_sleep[i + 4]

\* C19: no stage mutates a record it was handed: when apply_cole_kripke,
\* extract_sleep_metrics or analyze_sleep_with_simple_algorithm returns or
\* raises, the caller's input table is what it was before the call.
C19_InputsAreNotMutated ==
    [][/\ (pc = "ck_ready" /\ pc' = "ck_classified") => hyp_act_x' = hyp_act_x
       /\ (pc = "ck_classified" /\ pc' \in {"ck_done", "ck_error"}) =>
             results_df' = results_df
       /\ (pc = "th_ready" /\ pc' \in {"th_done", "th_error"}) => df' = df]_vars

(***************************************************************************)
(* main.py: epoching (calculate_heart_rate_from_ppg,                       *)
(* calculate_activity_metrics, prepare_data_for_hypnospy) and the merge of *)
(* analyze_sleep.                                                          *)
(*                                                                         *)
(* The time of a sample is in half minutes (an even time is on the         *)
(* minute); the timestamp of an epoch is in minutes.  A magnitude is in    *)
(* halves.  A mean is kept as <<sum, count>>, a heart rate as the fraction *)
(* num/den.                                                                *)
(***************************************************************************)
\* if len(group) >= 50
MinPpgSamples == 50
\* find_peaks(..., distance=50, ...)
PeakDistance == 50
\* if len(peaks) >= 2
MinPeaks == 2
\* sampling_rate = 135
sampling_rate == 135
\* if 30 <= heart_rate <= 200
MinHeartRate == 30
MaxHeartRate == 200
\* tolerance=pd.Timedelta('30s')
MergeToleranceSeconds == 30

\* no heart rate in a row
NoHeartRate == [num |-> NA, den |-> NA]

\* the samples strictly between successive peaks
diff_exclusive(peaks) ==
    AsTuple([k \in 1..(Len(peaks) - 1) |-> peaks[k + 1] - peaks[k] - 1])

\* np.diff(peaks)
diff(peaks) == AsTuple([k \in 1..(Len(peaks) - 1) |-> peaks[k + 1] - peaks[k]])

\* twice np.median(vals), vals not empty
median2(vals) ==
    LET n == Len(vals)
        sorted == SortedValues(vals)
    IN  IF n % 2 = 1 THEN 2 * sorted[(n + 1) \div 2]
        ELSE sorted[n \div 2] + sorted[(n \div 2) + 1]

\* heart_rate = (sampling_rate / avg_interval_samples) * 60
heart_rate_of(peaks) ==
    [num |-> 2 * sampling_rate * 60, den |-> median2(diff(peaks))]

\* the gate with its lower end left out
plausible_at_most_max(hr) == hr.num <= MaxHeartRate * hr.den

\* if 30 <= heart_rate <= 200
plausible(hr) == MinHeartRate * hr.den <= hr.num /\ hr.num <= MaxHeartRate * hr.den

\* the loop `for timestamp, group in resampled` of
\* calculate_heart_rate_from_ppg from window k on; window k is minute k - 1
RECURSIVE hr_records_from(_, _, _)
hr_records_from(windows, k, out) ==
    IF k > Len(windows) THEN out
    ELSE IF /\ windows[k].samples >= MinPpgSamples
            /\ Len(windows[k].peaks) >= MinPeaks
            /\ plausible(heart_rate_of(windows[k].peaks))
    THEN hr_records_from(windows, k + 1,
            Append(out, [timestamp |-> k - 1,
                         heart_rate |-> heart_rate_of(windows[k].peaks)]))
    ELSE hr_records_from(windows, k + 1, out)

\* timestamp.floor('1min') and timestamp.ceil('1min'), in minutes
floor_minute(t) == t \div 2
ceil_minute(t) == (t + 1) \div 2

\* the samples of a calendar minute
group_of(samples, minute) ==
    SelectSeq(samples, LAMBDA x : floor_minute(x.timestamp) = minute)

\* movement_count: the samples above mean + std of their minute (0 when
\* the std is not positive); a deviation is compared as count * x - sum
movement_count(group) ==
    LET n == Len(group)
        total == SumSeq([k \in 1..n |-> group[k].magnitude])
        dev == AsTuple([k \in 1..n |-> n * group[k].magnitude - total])
        squares == SumSeq([k \in 1..n |-> dev[k] * dev[k]])
    IN  IF n >= 2 /\ squares > 0
        THEN Cardinality({k \in 1..n :
                 dev[k] > 0 /\ (n - 1) * dev[k] * dev[k] > squares})
        ELSE 0

\* the resampling that emits an epoch for a minute without samples too
RECURSIVE activity_records_every_minute(_, _, _, _)
activity_records_every_minute(samples, minute, last, out) ==
    IF minute > last THEN out
    ELSE activity_records_every_minute(samples, minute + 1, last,
            Append(out, [timestamp |-> minute,
                         activity_magnitude |->
                             <<SumSeq([k \in 1..Len(group_of(samples, minute)) |->
                                          group_of(samples, minute)[k].magnitude]),
                               Len(group_of(samples, minute))>>,
                         movement_intensity |-> movement_count(group_of(samples, minute))]))

\* the loop `for timestamp, group in resampled` of calculate_activity_metrics
\* over the minutes minute..last
RECURSIVE activity_records(_, _, _, _)
activity_records(samples, minute, last, out) ==
    IF minute > last THEN out
    ELSE IF Len(group_of(samples, minute)) > 0
    THEN activity_records(samples, minute + 1, last,
            Append(out, [timestamp |-> minute,
                         activity_magnitude |->
                             <<SumSeq([k \in 1..Len(group_of(samples, minute)) |->
                                          group_of(samples, minute)[k].magnitude]),
                               Len(group_of(samples, minute))>>,
                         movement_intensity |-> movement_count(group_of(samples, minute))]))
    ELSE activity_records(samples, minute + 1, last, out)

\* the first and the last minute that hold a sample
first_minute(samples) == SetMin({floor_minute(samples[k].timestamp) : k \in 1..Len(samples)})
last_minute(samples) == SetMax({floor_minute(samples[k].timestamp) : k \in 1..Len(samples)})

\* hypnospy_data of prepare_data_for_hypnospy: one epoch per minute from
\* the floor of the first sample time to the ceiling of the last, the last
\* point of the date range excluded; activity_count = int(sum)
hypnospy_data(samples) ==
    LET times == {samples[k].timestamp : k \in 1..Len(samples)}
        start_time == floor_minute(SetMin(times))
        end_time == ceil_minute(SetMax(times))
    IN  AsTuple([i \in 1..(end_time - start_time) |->
            [hyp_time_col |-> start_time + i - 1,
             hyp_act_x |->
                 SumSeq([k \in 1..Len(group_of(samples, start_time + i - 1)) |->
                            group_of(samples, start_time + i - 1)[k].magnitude]) \div 2]])

\* the error messages of the epoching stages
InsufficientSensorData ==
    "Insufficient sensor data: No heart rate or activity data could be calculated"
NoAccelerometerData == "No accelerometer data available for HypnosPy analysis"
NoEpochsGenerated == "No epochs generated from accelerometer data"

\* pd.merge_asof(activity, hr, on='timestamp', direction='nearest',
\* tolerance=30s): the heart rate of the nearest heart-rate epoch within the
\* tolerance, missing when there is none
Distance(a, b) == IF a >= b THEN a - b ELSE b - a

merge_asof(activity, hr) ==
    AsTuple([i \in 1..Len(activity) |->
        LET near == {j \in 1..Len(hr) :
                        60 * Distance(hr[j].timestamp, activity[i].timestamp)
                            <= MergeToleranceSeconds}
        IN  [timestamp |-> activity[i].timestamp,
             activity_magnitude |-> activity[i].activity_magnitude,
             movement_intensity |-> activity[i].movement_intensity,
             heart_rate |->
                 IF near = {} THEN NoHeartRate
                 ELSE hr[CHOOSE j \in near : \A h \in near :
                            \/ Distance(hr[j].timestamp, activity[i].timestamp)
                                  < Distance(hr[h].timestamp, activity[i].timestamp)
                            \/ (Distance(hr[j].timestamp, activity[i].timestamp)
                                  = Distance(hr[h].timestamp, activity[i].timestamp)
                                /\ j <= h)].heart_rate]])

\* the merge as an inner join: an activity epoch without heart rate is dropped
merged_rows_inner_join(activity, hr) ==
    IF Len(activity) = 0
    THEN AsTuple([i \in 1..Len(hr) |->
            [timestamp |-> hr[i].timestamp, activity_magnitude |-> <<0, 1>>,
             movement_intensity |-> 0, heart_rate |-> hr[i].heart_rate]])
    ELSE SelectSeq(merge_asof(activity, hr), LAMBDA r : r.heart_rate # NoHeartRate)

\* merged_data of analyze_sleep when at least one of the two frames has rows
merged_rows(activity, hr) ==
    IF Len(activity) = 0
    THEN AsTuple([i \in 1..Len(hr) |->
            [timestamp |-> hr[i].timestamp, activity_magnitude |-> <<0, 1>>,
             movement_intensity |-> 0, heart_rate |-> hr[i].heart_rate]])
    ELSE IF Len(hr) = 0
    THEN AsTuple([i \in 1..Len(activity) |->
            [timestamp |-> activity[i].timestamp,
             activity_magnitude |-> activity[i].activity_magnitude,
             movement_intensity |-> activity[i].movement_intensity,
             heart_rate |-> NoHeartRate]])
    ELSE merge_asof(activity, hr)

(***************************************************************************)
(* Inputs of the epoching stages.                                          *)
(***************************************************************************)
\* most windows of a session, most peaks of a window, most accelerometer
\* samples of a session and the latest sample time (in half minutes)
MaxWindows == 2
MaxPeaks == 3
MaxSamples == 3
MaxHalfMinute == 7

\* intervals between successive peaks: the least find_peaks allows, the
\* longest that still gives 30 bpm, and one more
Intervals == {PeakDistance, (sampling_rate * 60) \div MinHeartRate,
              ((sampling_rate * 60) \div MinHeartRate) + 1}

\* the peaks of a window: a first peak, then intervals in increasing order
RECURSIVE PeaksFrom(_, _)
PeaksFrom(first, gaps) ==
    IF gaps = <<>> THEN <<first>>
    ELSE <<first>> \o PeaksFrom(first + Head(gaps), Tail(gaps))

PeakTrains ==
    {<<>>} \cup
    {PeaksFrom(10, gaps) :
        gaps \in {g \in UNION {[1..k -> Intervals] : k \in 0..(MaxPeaks - 1)} :
                     \A k \in 1..(Len(g) - 1) : g[k] <= g[k + 1]}}

\* a window: a minute without samples, a minute just short of and just at
\* the sample floor, and a full minute at 135 Hz; the peaks lie in it, at
\* least PeakDistance apart
Windows ==
    {w \in [samples : {0, MinPpgSamples - 1, MinPpgSamples, sampling_rate * 60},
            peaks : PeakTrains] :
        /\ \A k \in 1..Len(w.peaks) : w.peaks[k] < w.samples
        /\ (w.samples < MinPpgSamples => w.peaks = <<>>)}

\* the windows from the first to the last minute with PPG samples
PpgSessions ==
    {<<>>} \cup
    {ws \in UNION {[1..k -> Windows] : k \in 1..MaxWindows} :
        ws[1].samples > 0 /\ ws[Len(ws)].samples > 0}

\* the accelerometer samples of a session, in the order of their timestamps
AccSessions ==
    {ss \in UNION {[1..k -> [timestamp : 0..MaxHalfMinute, magnitude : {1, 3}]] :
                      k \in 0..MaxSamples} :
        \A k \in 1..(Len(ss) - 1) : ss[k].timestamp < ss[k + 1].timestamp}

\* a few sessions of each kind, to go with every session of the other kind
FewPpgSessions ==
    {<<>>,
     <<[samples |-> sampling_rate * 60, peaks |-> <<10, 10 + PeakDistance>>]>>,
     <<[samples |-> sampling_rate * 60, peaks |-> <<10, 10 + PeakDistance>>],
       [samples |-> MinPpgSamples, peaks |-> <<10>>],
       [samples |-> sampling_rate * 60, peaks |-> <<10, 10 + PeakDistance>>]>>}

FewAccSessions ==
    {<<>>,
     <<[timestamp |-> 0, magnitude |-> 1], [timestamp |-> 2, magnitude |-> 3]>>,
     <<[timestamp |-> 2, magnitude |-> 3]>>}

(***************************************************************************)
(* Actions of the epoching stages.                                         *)
(***************************************************************************)
InitPre ==
    /\ pc = "pre_ready"
    /\ \/ (ppg_windows \in PpgSessions /\ acc_samples \in FewAccSessions)
       \/ (ppg_windows \in FewPpgSessions /\ acc_samples \in AccSessions)
    /\ hr_data = <<>>
    /\ activity_data = <<>>
    /\ merged_data = <<>>
    /\ hypnospy_df = <<>>
    /\ summary = NoSummary
    /\ error = "none"
    /\ hyp_act_x = <<>>
    /\ results_df = cole_kripke_df(<<>>)
    /\ df = <<>>
    /\ likely_sleep = <<>>
    /\ sleep_blocks = <<>>
    /\ prev = <<>>
    /\ IdleHavok /\ IdleReq

\* hr_data = calculate_heart_rate_from_ppg(df), of a session that is new or
\* that the other endpoint has already prepared
calculate_heart_rate_from_ppg ==
    /\ pc \in {"pre_ready", "prep_done"}
    /\ hr_data' = hr_records_from(ppg_windows, 1, <<>>)
    /\ pc' = "pre_hr"
    /\ UNCHANGED <<ppg_windows, acc_samples, activity_data, merged_data, hypnospy_df,
                   summary, error, ck_vars, th_vars, havok_vars, req_vars>>

\* activity_data = calculate_activity_metrics(df)
calculate_activity_metrics ==
    /\ pc = "pre_hr"
    /\ activity_data' =
          IF Len(acc_samples) = 0 THEN <<>>
          ELSE activity_records(acc_samples, first_minute(acc_samples),
                                last_minute(acc_samples), <<>>)
    /\ pc' = "pre_act"
    /\ UNCHANGED <<ppg_windows, acc_samples, hr_data, merged_data, hypnospy_df,
                   summary, error, ck_vars, th_vars, havok_vars, req_vars>>

\* the merge of analyze_sleep: it raises when both frames are empty
merge_data ==
    /\ pc = "pre_act"
    /\ IF Len(hr_data) = 0 /\ Len(activity_data) = 0
       THEN /\ error' = InsufficientSensorData
            /\ pc' = "pre_error"
            /\ UNCHANGED merged_data
       ELSE /\ merged_data' = merged_rows(activity_data, hr_data)
            /\ pc' = "pre_merged"
            /\ UNCHANGED error
    /\ UNCHANGED <<ppg_windows, acc_samples, hr_data, activity_data, hypnospy_df,
                   summary, ck_vars, th_vars, havok_vars, req_vars>>

\* hypnospy_df = prepare_data_for_hypnospy(df)
prepare_data_for_hypnospy ==
    /\ pc = "pre_ready"
    /\ IF Len(acc_samples) = 0
       THEN /\ error' = NoAccelerometerData
            /\ pc' = "prep_error"
            /\ UNCHANGED hypnospy_df
       ELSE IF Len(hypnospy_data(acc_samples)) = 0
       THEN /\ error' = NoEpochsGenerated
            /\ pc' = "prep_error"
            /\ UNCHANGED hypnospy_df
       ELSE /\ hypnospy_df' = hypnospy_data(acc_samples)
            /\ pc' = "prep_done"
            /\ UNCHANGED error
    /\ UNCHANGED <<ppg_windows, acc_samples, hr_data, activity_data, merged_data,
                   summary, ck_vars, th_vars, havok_vars, req_vars>>

NextPre ==
    \/ calculate_heart_rate_from_ppg
    \/ calculate_activity_metrics
    \/ merge_data
    \/ prepare_data_for_hypnospy

SpecPre == InitPre /\ [][NextPre]_vars

(***************************************************************************)
(* Properties of the epoching stages.                                      *)
(***************************************************************************)
\* the heart-rate epochs have been computed
HeartRateComputed == pc \in {"pre_hr", "pre_act", "pre_merged", "pre_error"}
\* the activity epochs have been computed
ActivityComputed == pc \in {"pre_act", "pre_merged", "pre_error"}
\* the merge has run
MergeRan == pc \in {"pre_merged", "pre_error"}

\* the rate 8100 / median interval of a window lies in [30, 200] bpm
RateInRange(w) ==
    \A m2 \in {median2(diff(w.peaks))} :
        30 * m2 <= 2 * 135 * 60 /\ 2 * 135 * 60 <= 200 * m2

\* a window that passes the three gates
Qualifies(w) == w.samples >= 50 /\ Len(w.peaks) >= 2 /\ RateInRange(w)

\* C15: every heart-rate epoch comes from a minute with at least 50 PPG
\* samples and at least 2 peaks and carries a rate in [30, 200] bpm, and a
\* minute that fails one of these conditions has no epoch at all.
C15_HeartRateEpochsAreGated ==
    HeartRateComputed =>
        /\ \A e \in 1..Len(hr_data) :
              /\ hr_data[e].timestamp + 1 \in 1..Len(ppg_windows)
              /\ Qualifies(ppg_windows[hr_data[e].timestamp + 1])
              /\ hr_data[e].heart_rate.den > 0
              /\ 30 * hr_data[e].heart_rate.den <= hr_data[e].heart_rate.num
              /\ hr_data[e].heart_rate.num <= 200 * hr_data[e].heart_rate.den
        /\ \A k \in 1..Len(ppg_windows) :
              ~Qualifies(ppg_windows[k]) =>
                  \A e \in 1..Len(hr_data) : hr_data[e].timestamp # k - 1
        /\ \A e \in 1..(Len(hr_data) - 1) :
              hr_data[e].timestamp < hr_data[e + 1].timestamp

\* a session with an epoch, and with a minute of enough samples and peaks
\* whose rate is under 30 bpm and that has no epoch
C15_Witness ==
    /\ pc = "pre_hr"
    /\ Len(hr_data) >= 1
    /\ \E k \in 1..Len(ppg_windows) :
          /\ ppg_windows[k].samples >= 50
          /\ Len(ppg_windows[k].peaks) >= 2
          /\ ~RateInRange(ppg_windows[k])
          /\ \A e \in 1..Len(hr_data) : hr_data[e].timestamp # k - 1

\* the minutes that hold an accelerometer sample
PopulatedMinutes == {acc_samples[k].timestamp \div 2 : k \in 1..Len(acc_samples)}

\* the first and the last sample time of the session
FirstSampleTime == SetMin({acc_samples[k].timestamp : k \in 1..Len(acc_samples)})
LastSampleTime == SetMax({acc_samples[k].timestamp : k \in 1..Len(acc_samples)})

\* C16: the epochs of prepare_data_for_hypnospy are one minute apart, from
\* the minute that holds the first sample to the minute that ends at or
\* after the last one, a minute without samples among them with count 0;
\* the epochs of calculate_activity_metrics are the minutes that hold a
\* sample and no other, in increasing order.
C16_ContiguousAndOmittedEpochs ==
    /\ hypnospy_df # <<>> =>
          /\ 2 * hypnospy_df[1].hyp_time_col <= FirstSampleTime
          /\ FirstSampleTime < 2 * hypnospy_df[1].hyp_time_col + 2
          /\ 2 * hypnospy_df[Len(hypnospy_df)].hyp_time_col < LastSampleTime
          /\ LastSampleTime <= 2 * hypnospy_df[Len(hypnospy_df)].hyp_time_col + 2
          /\ \A i \in 1..(Len(hypnospy_df) - 1) :
                hypnospy_df[i + 1].hyp_time_col = hypnospy_df[i].hyp_time_col + 1
          /\ \A i \in 1..Len(hypnospy_df) :
                hypnospy_df[i].hyp_time_col \notin PopulatedMinutes =>
                    hypnospy_df[i].hyp_act_x = 0
    /\ ActivityComputed =>
          /\ {activity_data[i].timestamp : i \in 1..Len(activity_data)} = PopulatedMinutes
          /\ \A i \in 1..(Len(activity_data) - 1) :
                activity_data[i].timestamp < activity_data[i + 1].timestamp

\* a session with a minute without samples between two minutes with samples:
\* the first series has an epoch of count 0 for it, the second has none
C16_Witness ==
    /\ pc = "pre_act"
    /\ \E i \in 2..(Len(hypnospy_df) - 1) :
          /\ hypnospy_df[i].hyp_time_col \notin PopulatedMinutes
          /\ hypnospy_df[i].hyp_act_x = 0
          /\ hypnospy_df[i - 1].hyp_time_col \in PopulatedMinutes
          /\ hypnospy_df[i + 1].hyp_time_col \in PopulatedMinutes
          /\ \A e \in 1..Len(activity_data) :
                activity_data[e].timestamp # hypnospy_df[i].hyp_time_col
          /\ \E e \in 1..(Len(activity_data) - 1) :
                /\ activity_data[e].timestamp = hypnospy_df[i - 1].hyp_time_col
                /\ activity_data[e + 1].timestamp = hypnospy_df[i + 1].hyp_time_col

\* C14: the merge of a non-empty activity series with an empty heart-rate
\* series has one row per activity epoch, in order, with the activity fields
\* of the epoch and no heart rate, and raises no error; the merge raises an
\* error exactly when both series are empty.
C14_MergeKeepsActivityRows ==
    /\ (pc = "pre_merged" /\ Len(hr_data) = 0 /\ Len(activity_data) > 0) =>
          /\ Len(merged_data) = Len(activity_data)
          /\ \A i \in 1..Len(activity_data) :
                /\ merged_data[i].timestamp = activity_data[i].timestamp
                /\ merged_data[i].activity_magnitude = activity_data[i].activity_magnitude
                /\ merged_data[i].movement_intensity = activity_data[i].movement_intensity
                /\ merged_data[i].heart_rate = NoHeartRate
          /\ error = "none"
    /\ MergeRan =>
          (pc = "pre_error" <=> (Len(hr_data) = 0 /\ Len(activity_data) = 0))
    /\ pc = "pre_error" => (error = InsufficientSensorData /\ merged_data = <<>>)

\* a session with PPG samples of which no minute gave a heart rate, and two
\* activity epochs that the merge kept
C14_Witness ==
    /\ pc = "pre_merged"
    /\ ppg_windows # <<>>
    /\ Len(hr_data) = 0
    /\ Len(activity_data) >= 2
    /\ Len(merged_data) = Len(activity_data)
    /\ \A i \in 1..Len(merged_data) : merged_data[i].heart_rate = NoHeartRate

(***************************************************************************)
(* havok_analysis.py: apply_havok_analysis and detect_state_transitions.   *)
(*                                                                         *)
(* havok_df is the shape of the frame given to apply_havok_analysis: its   *)
(* length, the number of non-missing values of each signal column (NA when *)
(* the column is absent) and the stackmax argument.  The singular value    *)
(* decomposition is not computed: the forcing signal is any signal of the  *)
(* length the decomposition gives, N - stackmax + 1.  An index of a signal *)
(* counts from 0, as in the source.                                        *)
(***************************************************************************)
\* threshold_percentile=75
threshold_percentile == 75
\* prev_idx = -100
InitialPrevIdx == -100
\* if idx - prev_idx > 10
MinGap == 10
\* state_transitions[:20]
MaxTransitions == 20
\* df[...].notna().sum() > 100
MinSignalPoints == 100

\* the error messages of apply_havok_analysis; the last two are raised by
\* the libraries
MissingColumns == "DataFrame must contain activity_magnitude or heart_rate columns"
InsufficientSignal == "Insufficient data in activity or heart rate columns"
NegativeDimensions == "negative dimensions are not allowed"
EmptyDecomposition == "SVD of an empty matrix"
IndexOutOfBounds == "index -1 is out of bounds for axis 1 with size 0"

\* np.abs
Abs(x) == IF x >= 0 THEN x ELSE -x

\* the k-th smallest of the values of a sequence, k in 1..Len(vals)
OrderStatistic(vals, k) ==
    SetMin({v \in {vals[i] : i \in 1..Len(vals)} :
               Cardinality({i \in 1..Len(vals) : vals[i] <= v}) >= k})

\* 100 * np.percentile(vals, threshold_percentile), by linear interpolation
\* between the order statistics around position (n - 1) * 75 / 100
percentile_times_100(vals) ==
    LET n == Len(vals)
        lo == ((n - 1) * threshold_percentile) \div 100
        rest == ((n - 1) * threshold_percentile) % 100
        below == OrderStatistic(vals, lo + 1)
        above == IF rest = 0 THEN below ELSE OrderStatistic(vals, lo + 2)
    IN  100 * below + rest * (above - below)

\* transitions_idx = np.where(np.abs(forcing_signal) > threshold)[0]
transitions_idx(forcing) ==
    LET magnitudes == AsTuple([i \in 1..Len(forcing) |-> Abs(forcing[i])])
        threshold == percentile_times_100(magnitudes)
    IN  SelectSeq(AsTuple([i \in 1..Len(forcing) |-> i - 1]),
                  LAMBDA idx : 100 * magnitudes[idx + 1] > threshold)

\* the grouping that measures the gap from the start of the last event
RECURSIVE group_from_event_start(_, _, _, _, _)
group_from_event_start(forcing, idxs, k, prev_idx, transitions) ==
    IF k > Len(idxs) THEN transitions
    ELSE IF idxs[k] - prev_idx > MinGap
    THEN group_from_event_start(forcing, idxs, k + 1, idxs[k],
            Append(transitions, [sample_index |-> idxs[k],
                                 magnitude |-> Abs(forcing[idxs[k] + 1])]))
    ELSE group_from_event_start(forcing, idxs, k + 1, prev_idx, transitions)

\* the loop `for idx in transitions_idx` from candidate k on
RECURSIVE group_transitions(_, _, _, _, _)
group_transitions(forcing, idxs, k, prev_idx, transitions) ==
    IF k > Len(idxs) THEN transitions
    ELSE IF idxs[k] - prev_idx > MinGap
    THEN group_transitions(forcing, idxs, k + 1, idxs[k],
            Append(transitions, [sample_index |-> idxs[k],
                                 magnitude |-> Abs(forcing[idxs[k] + 1])]))
    ELSE group_transitions(forcing, idxs, k + 1, idxs[k], transitions)

detect_state_transitions(forcing) ==
    IF Len(transitions_idx(forcing)) = 0 THEN <<>>
    ELSE group_transitions(forcing, transitions_idx(forcing), 1, InitialPrevIdx, <<>>)

\* the first signal test with 100 points accepted
has_signal_at_least_min(shape) ==
    \/ (shape.activity_notna # NA /\ shape.activity_notna >= MinSignalPoints)
    \/ (shape.heart_rate_notna # NA /\ shape.heart_rate_notna > MinSignalPoints)

\* a signal column is present and has more than 100 non-missing values
has_signal(shape) ==
    \/ (shape.activity_notna # NA /\ shape.activity_notna > MinSignalPoints)
    \/ (shape.heart_rate_notna # NA /\ shape.heart_rate_notna > MinSignalPoints)

\* the number of columns asked of np.zeros in create_hankel_matrix
hankel_columns(shape) == shape.len - shape.stackmax + 1

\* the report of a failed and of a successful call
HavokError(message) == [status |-> "error", error |-> message, state_transitions |-> <<>>]
HavokReport(shape, transitions) ==
    [status |-> "ok", error |-> "none",
     state_transitions |->
        AsTuple([k \in 1..Min2(MaxTransitions, Len(transitions)) |->
            [sample_index |-> transitions[k].sample_index,
             magnitude |-> transitions[k].magnitude,
             time_offset_minutes |-> transitions[k].sample_index + shape.stackmax - 1]])]

(***************************************************************************)
(* Inputs of apply_havok_analysis.                                         *)
(***************************************************************************)
\* most gaps in the cycle of a forcing signal, and the longest forcing signal
MaxCycle == 2
MaxForcingLen == 260

\* gaps between successive spikes: adjacent, the longest gap that is
\* absorbed and the shortest that starts an event
Gaps == {1, MinGap, MinGap + 1}
Cycles == UNION {[1..k -> Gaps] : k \in 1..MaxCycle}

\* a signal of the given length with spikes of 4 and -3 at the offset and
\* then at the gaps of the cycle, over and over, on a floor of 0 and 1
ForcingOf(length, cycle, offset) ==
    LET period == SumSeq(cycle)
        starts == {SumSeq(SubSeq(cycle, 1, j)) : j \in 0..(Len(cycle) - 1)}
    IN  AsTuple([i \in 1..length |->
            IF i - 1 >= offset /\ ((i - 1 - offset) % period) \in starts
            THEN IF (i - 1) % 2 = 0 THEN 4 ELSE -3
            ELSE (i - 1) % 2])

ForcingSignals(length) ==
    {ForcingOf(length, cycle, offset) : cycle \in Cycles, offset \in {0, 3}}

\* the frames: a stackmax, a length around it and around the floor on the
\* signal, and the non-missing counts of the two columns
HavokShapes ==
    {shape \in [stackmax : {MinSignalPoints, MinSignalPoints + 3},
                len : (MinSignalPoints - 1)..(MinSignalPoints + 3 + MaxForcingLen),
                activity_notna : {NA, 0, MinSignalPoints, MinSignalPoints + 1},
                heart_rate_notna : {NA, MinSignalPoints, MinSignalPoints + 1}] :
        /\ shape.len - shape.stackmax \in
              {-3, -2, -1, 0, 1, MinGap + 1, 2 * (MinGap + 1), MaxForcingLen - 1}
        /\ shape.activity_notna <= shape.len
        /\ shape.heart_rate_notna <= shape.len}

(***************************************************************************)
(* Actions of apply_havok_analysis.                                        *)
(***************************************************************************)
InitHavok ==
    /\ pc = "havok_ready"
    /\ havok_df \in HavokShapes
    /\ forcing_signal = <<>>
    /\ havok_results = <<>>
    /\ summary = NoSummary
    /\ error = "none"
    /\ hyp_act_x = <<>>
    /\ results_df = cole_kripke_df(<<>>)
    /\ df = <<>>
    /\ likely_sleep = <<>>
    /\ sleep_blocks = <<>>
    /\ prev = <<>>
    /\ IdlePre /\ IdleReq

\* apply_havok_analysis(df, stackmax): the tests on the columns, the Hankel
\* matrix, the decomposition, the transitions and their truncation.  The
\* decomposition of a matrix without columns fails in scipy or gives arrays
\* without columns, of which V_r[:, -1] fails.
apply_havok_analysis ==
    /\ pc = "havok_ready"
    /\ IF havok_df.activity_notna = NA /\ havok_df.heart_rate_notna = NA
       THEN /\ havok_results' = HavokError(MissingColumns)
            /\ pc' = "havok_error"
            /\ UNCHANGED forcing_signal
       ELSE IF ~has_signal(havok_df)
       THEN /\ havok_results' = HavokError(InsufficientSignal)
            /\ pc' = "havok_error"
            /\ UNCHANGED forcing_signal
       ELSE IF hankel_columns(havok_df) < 0
       THEN /\ havok_results' = HavokError(NegativeDimensions)
            /\ pc' = "havok_error"
            /\ UNCHANGED forcing_signal
       ELSE IF hankel_columns(havok_df) = 0
       THEN /\ \E message \in {EmptyDecomposition, IndexOutOfBounds} :
                  havok_results' = HavokError(message)
            /\ pc' = "havok_error"
            /\ UNCHANGED forcing_signal
       ELSE /\ \E forcing \in ForcingSignals(hankel_columns(havok_df)) :
                  /\ forcing_signal' = forcing
                  /\ havok_results' = HavokReport(havok_df, detect_state_transitions(forcing))
            /\ pc' = "havok_done"
    /\ UNCHANGED <<havok_df, summary, error, ck_vars, th_vars, pre_vars, req_vars>>

NextHavok == apply_havok_analysis

SpecHavok == InitHavok /\ [][NextHavok]_vars

(***************************************************************************)
(* Properties of apply_havok_analysis.                                     *)
(***************************************************************************)
\* apply_havok_analysis has returned or raised
HavokReturned == pc \in {"havok_done", "havok_error"}

\* C17: apply_havok_analysis fails, with no report, when the frame has fewer
\* rows than stackmax and when neither activity_magnitude nor heart_rate has
\* more than 100 non-missing values.
C17_FailsOnShortOrEmptySignal ==
    HavokReturned =>
        ((\/ havok_df.len < havok_df.stackmax
          \/ /\ (havok_df.activity_notna = NA \/ havok_df.activity_notna <= 100)
             /\ (havok_df.heart_rate_notna = NA \/ havok_df.heart_rate_notna <= 100))
            => /\ pc = "havok_error"
               /\ havok_results.status = "error"
               /\ havok_results.error # "none"
               /\ havok_results.state_transitions = <<>>)

\* a frame of stackmax - 1 rows with more than 100 values of activity, that
\* failed
C17_Witness ==
    /\ pc = "havok_error"
    /\ havok_df.len = havok_df.stackmax - 1
    /\ havok_df.activity_notna > 100
    /\ havok_results.status = "error"

\* the candidates of the forcing signal that start an event: the first one,
\* and each one more than 10 samples after the candidate before it
EventStarts(candidates) ==
    {i \in candidates :
        \A before \in {{j \in candidates : j < i}} :
            before = {} \/ i - SetMax(before) > 10}

\* C18: the transitions that apply_havok_analysis returns are the candidates
\* that are first or more than 10 samples after the candidate before them,
\* the first 20 of them at most, in increasing order of sample_index.
C18_EventsByGapThenTruncated ==
    pc = "havok_done" =>
        \A idxs \in {transitions_idx(forcing_signal)} :
        \A events \in {EventStarts({idxs[k] : k \in 1..Len(idxs)})} :
        \A returned \in {havok_results.state_transitions} :
            /\ Len(returned) = Min2(20, Cardinality(events))
            /\ \A k \in 1..Len(returned) :
                  /\ returned[k].sample_index \in events
                  /\ Cardinality({e \in events : e < returned[k].sample_index}) = k - 1

\* a signal with more than 20 events and with absorbed candidates, of which
\* 20 events were returned
C18_Witness ==
    /\ pc = "havok_done"
    /\ Len(havok_results.state_transitions) = 20
    /\ \A idxs \in {transitions_idx(forcing_signal)} :
       \A events \in {EventStarts({idxs[k] : k \in 1..Len(idxs)})} :
          /\ Cardinality(events) > 20
          /\ \E k \in 2..Len(idxs) :
                idxs[k] \notin events /\ idxs[k] < havok_results.state_transitions[20].sample_index

(***************************************************************************)
(* main.py: the handlers analyze_sleep and analyze_sleep_hypnospy around   *)
(* the engine.                                                             *)
(*                                                                         *)
(* row is the analysis row of the session in the table of the endpoint,    *)
(* request[r] the position of request r in the handler, db_writes the      *)
(* inserts and updates the requests have sent, in order.  The readings of  *)
(* the session give the merged frame df (threshold endpoint) or the counts *)
(* hyp_act_x (Cole-Kripke endpoint); how many raw readings a request       *)
(* fetches is chosen when it fetches them.  A step of a request is one     *)
(* statement on the table together with the local computation before it.  *)
(***************************************************************************)
\* if not all_readings or len(all_readings) < 100
MinReadings == 100

\* the error message of the readings floor
InsufficientReadings == "Insufficient data for analysis (minimum 100 samples required)"
\* the error of .single() when no row matches
NoRowFound == "JSON object requested, multiple (or no) rows returned"

\* the keys of the dict an engine returns
MetricFields == DOMAIN NoSummary

\* the keys the handler adds to the dict before it stores it
CompletionFields ==
    {"user_id", "session_id", "processing_status", "processed_at",
     "processing_duration_seconds"}

\* the keys of the update of the except clause
ErrorFields ==
    {"processing_status", "processing_error", "processed_at",
     "processing_duration_seconds"}

\* what analyze_sleep computes between the fetch and the update: the merge
\* (an empty frame stands for two empty series) and the classifier
simple_outcome(frame) ==
    IF Len(frame) = 0
    THEN [ok |-> FALSE, error |-> InsufficientSensorData, metrics |-> NoSummary]
    ELSE IF too_few_records(Len(frame))
    THEN [ok |-> FALSE, error |-> InsufficientDataTh, metrics |-> NoSummary]
    ELSE LET sorted == sort_values(frame)
             ls == likely_sleep_column(sorted)
         IN  [ok |-> TRUE, error |-> "none",
              metrics |-> simple_metrics(sorted, ls, detect_sleep_blocks(ls))]

\* what analyze_sleep_hypnospy computes between the fetch and the update
\* (no counts stand for readings without accelerometer values)
hypnospy_outcome(counts) ==
    IF Len(counts) = 0
    THEN [ok |-> FALSE, error |-> NoAccelerometerData, metrics |-> NoSummary]
    ELSE IF Len(counts) < MinEpochsCK
    THEN [ok |-> FALSE, error |-> InsufficientDataCK, metrics |-> NoSummary]
    ELSE LET sw == cole_kripke_df(counts).sleep_wake
         IN  IF DOMAIN sleep_groups(sw) = {}
             THEN [ok |-> FALSE, error |-> NoSleepDetected, metrics |-> NoSummary]
             ELSE [ok |-> TRUE, error |-> "none", metrics |-> sleep_metrics(sw)]

\* the outcome of the stages for a request that fetched raw_records readings
stages_outcome(table, raw_records, frame, counts) ==
    IF raw_records < MinReadings
    THEN [ok |-> FALSE, error |-> InsufficientReadings, metrics |-> NoSummary]
    ELSE IF table = "sleep_analysis" THEN simple_outcome(frame)
    ELSE hypnospy_outcome(counts)

\* the except clause with the test on is_owner left out
writes_error_always(req) == TRUE

\* if session_id and locals().get('is_owner', False)
writes_error(req) == req.is_owner

\* an insert or update sent by request r
Write(r, op, status, message, fields) ==
    [request |-> r, op |-> op, processing_status |-> status,
     processing_error |-> message, fields |-> fields]

\* the row after an update of a request, which changes a row that exists
Updated(old, status, message, by) ==
    IF old.exists
    THEN [old EXCEPT !.processing_status = status,
                     !.processing_error = message,
                     !.metrics_by = by]
    ELSE old

(***************************************************************************)
(* Inputs and actions of the handlers.                                     *)
(***************************************************************************)
\* the requests for the session, and the runs of clear_hypnospy_cache.py
MaxRequests == 2
MaxClears == 1

\* merged frames and activity counts of a session: none, too few, enough
FewFrames ==
    {<<>>} \cup
    {Frame(profile, runs, 0) :
        profile \in Profiles, runs \in {<<7>>, <<11>>, <<max_awake_tolerance, 11>>}}
FewSeries ==
    {<<>>} \cup
    {Expand(<<[val |-> count, run |-> run]>>) : count \in {0, 40000}, run \in RunLengths}

\* the row before the requests: none, or the row an earlier request left
NoRow ==
    [exists |-> FALSE, processing_status |-> "none", processing_error |-> "none",
     metrics_by |-> NA]
EarlierRows ==
    {[exists |-> TRUE, processing_status |-> "processing", processing_error |-> "none",
      metrics_by |-> NA],
     [exists |-> TRUE, processing_status |-> "completed", processing_error |-> "none",
      metrics_by |-> 0],
     [exists |-> TRUE, processing_status |-> "error",
      processing_error |-> InsufficientReadings, metrics_by |-> NA]}

NewRequest == [pos |-> "start", is_owner |-> FALSE, error |-> "none"]

InitReq ==
    /\ pc \in {"sleep_analysis", "sleep_analysis_hypnospy"}
    /\ IF pc = "sleep_analysis"
       THEN df \in FewFrames /\ hyp_act_x = <<>>
       ELSE df = <<>> /\ hyp_act_x \in FewSeries
    /\ row \in [state : {NoRow} \cup EarlierRows, clears : {0}]
    /\ request = [r \in 1..MaxRequests |-> NewRequest]
    /\ db_writes = <<>>
    /\ results_df = cole_kripke_df(<<>>)
    /\ summary = NoSummary
    /\ error = "none"
    /\ likely_sleep = <<>>
    /\ sleep_blocks = <<>>
    /\ prev = <<>>
    /\ IdlePre /\ IdleHavok

ReqUnchanged == <<pc, hyp_act_x, results_df, df, likely_sleep, sleep_blocks, summary,
                  error, prev, pre_vars, havok_vars>>

\* supabase.table(...).insert({... 'processing_status': 'processing'}): the
\* request owns the row it inserts; the insert fails when the session has a row
insert_processing_row(r) ==
    /\ request[r].pos = "start"
    /\ IF ~row.state.exists
       THEN /\ row' = [row EXCEPT !.state =
                          [exists |-> TRUE, processing_status |-> "processing",
                           processing_error |-> "none", metrics_by |-> NA]]
            /\ db_writes' = Append(db_writes,
                                Write(r, "insert", "processing", "none",
                                      {"user_id", "session_id", "processing_status"}))
            /\ request' = [request EXCEPT ![r].pos = "fetch", ![r].is_owner = TRUE]
       ELSE /\ request' = [request EXCEPT ![r].pos = "select", ![r].is_owner = FALSE]
            /\ UNCHANGED <<row, db_writes>>
    /\ UNCHANGED ReqUnchanged

\* existing = ...select('*').eq('session_id', session_id).single().execute()
\* and the branches on its processing_status; without a row, single()
\* raises or existing.data is empty and the request goes on, not as owner
select_existing_row(r) ==
    /\ request[r].pos = "select"
    /\ IF ~row.state.exists
       THEN \/ request' = [request EXCEPT ![r].pos = "failed", ![r].error = NoRowFound]
            \/ request' = [request EXCEPT ![r].pos = "fetch"]
       ELSE IF row.state.processing_status = "completed"
       THEN request' = [request EXCEPT ![r].pos = "cached"]
       ELSE IF row.state.processing_status = "processing"
       THEN request' = [request EXCEPT ![r].pos = "in_progress"]
       ELSE request' = [request EXCEPT ![r].pos = "reset"]
    /\ UNCHANGED <<row, db_writes>>
    /\ UNCHANGED ReqUnchanged

\* ...update({'processing_status': 'processing', 'processing_error': None})
\* of a row that was read in error: the request becomes the owner
reset_error_row(r) ==
    /\ request[r].pos = "reset"
    /\ row' = [row EXCEPT !.state =
                  Updated(row.state, "processing", "none", row.state.metrics_by)]
    /\ db_writes' = Append(db_writes,
                        Write(r, "update", "processing", "none",
                              {"processing_status", "processing_error"}))
    /\ request' = [request EXCEPT ![r].pos = "fetch", ![r].is_owner = TRUE]
    /\ UNCHANGED ReqUnchanged

\* the fetch of the readings, the stages, and the update that follows: the
\* metrics with 'completed', or in the except clause the error, which the
\* table may refuse (except: pass)
analyze_and_update(r) ==
    /\ request[r].pos = "fetch"
    /\ \E raw_records \in {MinReadings - 1, MinReadings} :
       \E outcome \in {stages_outcome(pc, raw_records, df, hyp_act_x)} :
          IF outcome.ok
          THEN /\ row' = [row EXCEPT !.state =
                             Updated(row.state, "completed", row.state.processing_error, r)]
               /\ db_writes' = Append(db_writes,
                                   Write(r, "update", "completed", "none",
                                         DOMAIN outcome.metrics \cup CompletionFields))
               /\ request' = [request EXCEPT ![r].pos = "completed"]
          ELSE /\ request' = [request EXCEPT ![r].pos = "failed", ![r].error = outcome.error]
               /\ IF writes_error(request[r])
                  THEN \/ /\ row' = [row EXCEPT !.state =
                                        Updated(row.state, "error", outcome.error,
                                                row.state.metrics_by)]
                          /\ db_writes' = Append(db_writes,
                                              Write(r, "update", "error", outcome.error,
                                                    ErrorFields))
                       \/ UNCHANGED <<row, db_writes>>
                  ELSE UNCHANGED <<row, db_writes>>
    /\ UNCHANGED ReqUnchanged

\* clear_hypnospy_cache.py: every row of sleep_analysis_hypnospy is deleted
clear_hypnospy_cache ==
    /\ pc = "sleep_analysis_hypnospy"
    /\ row.clears < MaxClears
    /\ row.state.exists
    /\ row' = [state |-> NoRow, clears |-> row.clears + 1]
    /\ UNCHANGED <<request, db_writes>>
    /\ UNCHANGED ReqUnchanged

NextReq ==
    \/ \E r \in 1..MaxRequests : insert_processing_row(r)
    \/ \E r \in 1..MaxRequests : select_existing_row(r)
    \/ \E r \in 1..MaxRequests : reset_error_row(r)
    \/ \E r \in 1..MaxRequests : analyze_and_update(r)
    \/ clear_hypnospy_cache

SpecReq == InitReq /\ [][NextReq]_vars

(***************************************************************************)
(* Properties of the handlers.                                             *)
(***************************************************************************)
\* the writes request r has sent, in order
WritesOf(r) == SelectSeq(db_writes, LAMBDA w : w.request = r)

\* C20: a request in which a stage raised has sent no write with a metric
\* field and has put no metrics in the row; if it owns the row, the one
\* write it sent after it took the row sets processing_status to 'error'
\* with the message of the failure; if it does not, it has sent no write.
C20_FailuresWriteNoMetrics ==
    \A r \in DOMAIN request :
        request[r].pos = "failed" =>
            \A mine \in {WritesOf(r)} :
                /\ \A k \in 1..Len(mine) :
                      mine[k].fields \cap
                          {"sleep_onset", "wake_time", "total_sleep_time_minutes",
                           "time_in_bed_minutes", "sleep_efficiency_percent",
                           "sleep_onset_latency_minutes",
                           "wake_after_sleep_onset_minutes", "number_of_awakenings",
                           "awakening_index", "hr_metrics"} = {}
                /\ row.state.metrics_by # r
                /\ request[r].is_owner =>
                      /\ Len(mine) \in {1, 2}
                      /\ mine[1].processing_status = "processing"
                      /\ Len(mine) = 2 =>
                            /\ mine[2].processing_status = "error"
                            /\ mine[2].processing_error = request[r].error
                            /\ mine[2].processing_error # "none"
                /\ ~request[r].is_owner => mine = <<>>

\* a stage raised in two requests: one owns the row and has sent the error
\* after it took the row, the other does not own it and has sent nothing
C20_Witness ==
    \E r, s \in DOMAIN request :
        /\ request[r].pos = "failed" /\ request[r].is_owner
        /\ Len(WritesOf(r)) = 2
        /\ WritesOf(r)[2].processing_status = "error"
        /\ request[s].pos = "failed" /\ ~request[s].is_owner
        /\ request[s].error \in {InsufficientReadings, InsufficientDataCK,
                                 NoSleepDetected, NoAccelerometerData}
        /\ WritesOf(s) = <<>>

(***************************************************************************)
(* Properties of concurrent requests for one session.                      *)
(***************************************************************************)
\* the requests that are past the row and run the stages
Computing == {r \in DOMAIN request : request[r].pos = "fetch"}

\* C21: at most one request at a time is past the row and runs the
\* analysis, and it owns the row; every other request has returned 202 or
\* the cached result without computing.
C21_AtMostOneRequestComputes ==
    /\ Cardinality(Computing) <= 1
    /\ \A r \in Computing : request[r].is_owner

\* C22: a step of a request leaves a row that is 'completed' as it is: its
\* status, its error and its metrics do not change.
C22_CompletedRowIsNeverOverwritten ==
    [][(row.state.exists /\ row.state.processing_status = "completed"
            /\ row'.clears = row.clears)
          => row'.state = row.state]_vars

(***************************************************************************)
(* The handlers run to their end: a request that can take a step takes it. *)
(* The rows at the start are rows whose owner has finished.                *)
(***************************************************************************)
RequestStep(r) ==
    \/ insert_processing_row(r)
    \/ select_existing_row(r)
    \/ reset_error_row(r)
    \/ analyze_and_update(r)

InitReqLive == InitReq /\ row.state.processing_status # "processing"

SpecReqLive ==
    /\ InitReqLive
    /\ [][NextReq]_vars
    /\ \A r \in 1..MaxRequests : WF_vars(RequestStep(r))

\* C23: a row that is 'processing' leaves that status: it becomes
\* 'completed' or 'error' (or is deleted by the cache script) once the
\* handlers have run to their end.
C23_ProcessingEventuallyEnds ==
    (row.state.exists /\ row.state.processing_status = "processing")
        ~> (~row.state.exists \/ row.state.processing_status \in {"completed", "error"})

(***************************************************************************)
(* Further properties of the threshold path.                               *)
(***************************************************************************)
\* C24: every block of the threshold scan starts on a sleep-labelled epoch
\* and ends on one, its end being the last sleep-labelled epoch before the
\* wake run that closed it or before the end of the series; so wake_time is
\* the timestamp of a sleep-labelled epoch.
C24_BlocksStartAndEndOnSleepEpochs ==
    ReturnedTh =>
        /\ \A b \in 1..Len(sleep_blocks) :
              /\ likely_sleep[sleep_blocks[b][1] + 1]
              /\ likely_sleep[sleep_blocks[b][2] + 1]
              /\ \/ sleep_blocks[b][2] = Len(likely_sleep) - 1
                 \/ ~likely_sleep[sleep_blocks[b][2] + 2]
        /\ sleep_blocks # <<>> =>
              \E i \in 1..Len(likely_sleep) :
                  likely_sleep[i] /\ SortedTimestamps[i] = summary.wake_time

\* C25: in a summary of the threshold path with a block, on epochs one
\* minute apart, total_sleep_time_minutes + wake_after_sleep_onset_minutes
\* is at most the minutes from sleep_onset to wake_time.
C25_SleepAndWakeTimeDoNotOverlap ==
    ReturnedThWithSleep =>
        \A ts \in {SortedTimestamps} :
            (\A i \in 1..(Len(ts) - 1) : ts[i + 1] = ts[i] + 1) =>
                summary.total_sleep_time_minutes + summary.wake_after_sleep_onset_minutes
                    <= summary.wake_time - summary.sleep_onset

(***************************************************************************)
(* Further properties of the Cole-Kripke path.                             *)
(***************************************************************************)
\* C26: every summary of the Cole-Kripke path has no wake after sleep
\* onset, no awakening and awakening index 0: every epoch from sleep_onset
\* to wake_time is sleep-labelled, whatever wake epochs lie between the
\* sleep runs of the series.
C26_ColeKripkeCountsNoWake ==
    ReturnedCK =>
        /\ summary.wake_after_sleep_onset_minutes = 0
        /\ summary.number_of_awakenings = 0
        /\ summary.awakening_index = 0
        /\ \A i \in 1..Len(results_df.sleep_wake) :
              (summary.sleep_onset <= i - 1 /\ i - 1 <= summary.wake_time)
                  => results_df.sleep_wake[i] = 1

\* a summary of a series with two sleep runs and wake epochs between them
C26_Witness ==
    /\ ReturnedCK
    /\ summary.wake_after_sleep_onset_minutes = 0
    /\ \E i, j, k \in 1..Len(results_df.sleep_wake) :
          /\ i < j /\ j < k
          /\ results_df.sleep_wake[i] = 1
          /\ results_df.sleep_wake[j] = 0
          /\ results_df.sleep_wake[k] = 1

(***************************************************************************)
(* The threshold path on a session with heart rate only.                   *)
(***************************************************************************)
\* most epochs of a session with heart rate only
MaxHrRows == 12

\* merged_data = hr_data.copy(); merged_data['activity_magnitude'] = 0: the
\* merged frame of a session whose activity series is empty
merged_hr_only(hr) ==
    AsTuple([i \in 1..Len(hr) |->
        [timestamp |-> hr[i].timestamp, activity_magnitude |-> 0,
         heart_rate |-> hr[i].heart_rate]])

\* heart-rate series: one epoch per minute, with or without minutes that
\* gave no epoch after the first three, the rate going between two levels
HrLevels == {<<MinHeartRate, MinHeartRate>>, <<45, 46>>, <<50, 70>>, <<60, 162>>}
HrSeries ==
    {[i \in 1..n |->
        [timestamp |-> (i - 1) + (IF i > max_awake_tolerance THEN gap ELSE 0),
         heart_rate |-> IF i % period = 0 THEN levels[1] ELSE levels[2]]] :
        n \in (MinRecords - 1)..MaxHrRows, levels \in HrLevels,
        period \in {2, 3, 5}, gap \in {0, 2}}

InitHrOnly ==
    /\ pc = "th_ready"
    /\ \E hr \in HrSeries : df = merged_hr_only(hr)
    /\ likely_sleep = <<>>
    /\ sleep_blocks = <<>>
    /\ summary = NoSummary
    /\ error = "none"
    /\ prev = <<>>
    /\ hyp_act_x = <<>>
    /\ results_df = cole_kripke_df(<<>>)
    /\ IdlePre /\ IdleHavok /\ IdleReq

NextHrOnly == analyze_sleep_with_simple_algorithm

SpecHrOnly == InitHrOnly /\ [][NextHrOnly]_vars

\* C27: the merged frame of a session with heart rate and without activity
\* has activity_magnitude 0 in every row, and the threshold path labels no
\* epoch of it as sleep: the summary it returns has no sleep_onset, no
\* wake_time, total_sleep_time_minutes 0 and sleep_efficiency_percent 0.
C27_HeartRateOnlyGivesNoSleep ==
    /\ \A i \in 1..Len(df) : df[i].activity_magnitude = 0 /\ df[i].heart_rate # NA
    /\ pc = "th_done" =>
          /\ \A i \in 1..Len(likely_sleep) : ~likely_sleep[i]
          /\ sleep_blocks = <<>>
          /\ summary.sleep_onset = NA
          /\ summary.wake_time = NA
          /\ summary.total_sleep_time_minutes = 0
          /\ summary.sleep_efficiency_percent = 0

\* a summary for a session of 10 or more epochs whose heart rate varies
C27_Witness ==
    /\ pc = "th_done"
    /\ Len(df) >= 10
    /\ \E i, j \in 1..Len(df) : df[i].heart_rate + 100 < df[j].heart_rate
    /\ summary.sleep_onset = NA
    /\ summary.total_sleep_time_minutes = 0

(***************************************************************************)
(* Further properties of the epoching stages.                              *)
(***************************************************************************)
\* the epochs of hypnospy_df whose minute [start, start + 60 s) holds the
\* sample time t (in half minutes)
EpochsHolding(t) ==
    {i \in 1..Len(hypnospy_df) :
        2 * hypnospy_df[i].hyp_time_col <= t /\ t < 2 * hypnospy_df[i].hyp_time_col + 2}

\* C28: prepare_data_for_hypnospy puts every accelerometer sample in exactly
\* one epoch, and it returns at least one epoch whenever the session has a
\* sample.
C28_EverySampleInOneEpoch ==
    /\ pc = "prep_done" =>
          \A k \in 1..Len(acc_samples) :
              Cardinality(EpochsHolding(acc_samples[k].timestamp)) = 1
    /\ pc = "prep_error" => Len(acc_samples) = 0

(***************************************************************************)
(* The Cole-Kripke classifier on a series and on the same series with the  *)
(* activity of one epoch raised.                                           *)
(***************************************************************************)
\* the caller raises the count of one epoch and classifies the series
\* again; the outcome of the call before is kept in prev
raise_activity ==
    /\ pc = "ck_classified"
    /\ prev = <<>>
    /\ \E i \in {1, 2, 5, Len(hyp_act_x)} \cap (1..Len(hyp_act_x)) :
       \E count \in {c \in Counts : c > hyp_act_x[i]} :
          hyp_act_x' = [hyp_act_x EXCEPT ![i] = count]
    /\ prev' = <<[hyp_act_x |-> hyp_act_x, sleep_index |-> results_df.sleep_index,
                  sleep_wake |-> results_df.sleep_wake]>>
    /\ results_df' = cole_kripke_df(<<>>)
    /\ pc' = "ck_ready"
    /\ UNCHANGED <<df, likely_sleep, sleep_blocks, summary, error,
                   pre_vars, havok_vars, req_vars>>

NextRaise ==
    \/ apply_cole_kripke
    \/ raise_activity
    \/ extract_sleep_metrics

SpecRaise == InitCK /\ [][NextRaise]_vars

\* the series has been classified, and after it the series with one count
\* raised
ClassifiedAgain == pc = "ck_classified" /\ prev # <<>>

\* every count of the series is 0
ZeroActivity == \A i \in 1..Len(hyp_act_x) : hyp_act_x[i] = 0

\* C29: with the count of one epoch raised no sleep index is lower and no
\* epoch goes from sleep to wake; a series whose counts are all 0 is wake in
\* every epoch, and extract_sleep_metrics raises 'No sleep periods detected'
\* for it.
C29_SleepIndexIsMonotone ==
    /\ ClassifiedAgain =>
          \A i \in 1..Len(hyp_act_x) :
              /\ results_df.sleep_index[i] >= prev[1].sleep_index[i]
              /\ prev[1].sleep_wake[i] = 1 => results_df.sleep_wake[i] = 1
    /\ (ZeroActivity /\ pc \in {"ck_classified", "ck_done", "ck_error"}) =>
          \A i \in 1..Len(hyp_act_x) : results_df.sleep_wake[i] = 0
    /\ (ZeroActivity /\ pc \in {"ck_done", "ck_error"}) =>
          (pc = "ck_error" /\ error = NoSleepDetected)

\* a raised count that turned an epoch from wake to sleep
C29_Witness ==
    /\ ClassifiedAgain
    /\ \E i \in 1..Len(hyp_act_x) :
          prev[1].sleep_wake[i] = 0 /\ results_df.sleep_wake[i] = 1
    /\ \E i \in 1..Len(hyp_act_x) :
          prev[1].sleep_wake[i] = 1 /\ results_df.sleep_index[i] > prev[1].sleep_index[i]

\* C30: every heart rate of an epoch is at most 162 bpm: the peaks of its
\* minute are at least 50 samples apart and the rate is 135 over the median
\* spacing, times 60.
C30_HeartRateAtMost162 ==
    HeartRateComputed =>
        \A e \in 1..Len(hr_data) :
            /\ hr_data[e].heart_rate.den > 0
            /\ hr_data[e].heart_rate.num <= 162 * hr_data[e].heart_rate.den
            /\ \A w \in {ppg_windows[hr_data[e].timestamp + 1]} :
                  /\ \A k \in 1..(Len(w.peaks) - 1) : w.peaks[k + 1] - w.peaks[k] >= 50
                  /\ \E spacing2 \in 100..(2 * 135 * 60) :
                        /\ hr_data[e].heart_rate.num * spacing2
                              = 2 * 135 * 60 * hr_data[e].heart_rate.den
                        /\ \E k \in 1..(Len(w.peaks) - 1) :
                              2 * (w.peaks[k + 1] - w.peaks[k]) <= spacing2
                        /\ \E k \in 1..(Len(w.peaks) - 1) :
                              2 * (w.peaks[k + 1] - w.peaks[k]) >= spacing2

\* an epoch of exactly 162 bpm beside an epoch of a lower rate
C30_Witness ==
    /\ pc = "pre_hr"
    /\ \E e \in 1..Len(hr_data) :
          hr_data[e].heart_rate.num = 162 * hr_data[e].heart_rate.den
    /\ \E e \in 1..Len(hr_data) :
          /\ hr_data[e].heart_rate.num < 162 * hr_data[e].heart_rate.den
          /\ Len(ppg_windows[hr_data[e].timestamp + 1].peaks) = 3
====
